---- MODULE Spec2Model ----
(***************************************************************************)
(* GreenField firmware (AgroTechLab-IFSC/greenfield_fw).                   *)
(*                                                                         *)
(* Model of the shared configuration record atl_config guarded by          *)
(* atl_config_mutex, of the HTTP POST handlers that change it, and of the  *)
(* MQTT event handler atl_mqtt5_event_handler with its firmware update     *)
(* (OTA) logic and request/response correlation by request_id, and of the  *)
(* WiFi event handler atl_wifi_event_handler in station mode.              *)
(***************************************************************************)
EXTENDS Integers, Sequences, FiniteSets, TLC

(***************************************************************************)
(* Bounds of the model.                                                    *)
(***************************************************************************)
\* largest message id the MQTT client hands out in the model
MaxMsgId == 11
\* chunk responses are accepted only while chunk_current is below this
MaxChunk == 3
\* largest chunk index the text of an inbound chunk topic carries
MaxIdx == 0
\* largest value of atl_config.wifi.sta_max_conn_retry (the build option
\* CONFIG_ATL_WIFI_STA_MAX_CONN_RETRY) a device starts with
MaxRetry == 2
\* consecutive esp_wifi_connect calls of the event handler that are counted
MaxAttempts == 4

(***************************************************************************)
(* Program constants.                                                      *)
(***************************************************************************)
ATL_OTA_BEHAVIOUR_DISABLED == 0
ATL_OTA_BEHAVIOUR_VERIFY_NOTIFY == 1
ATL_OTA_BEHAVIOU_DOWNLOAD == 2
ATL_OTA_BEHAVIOU_DOWNLOAD_REBOOT == 3

ATL_MQTT_DISABLED == 0
ATL_MQTT_AGROTECHLAB_CLOUD == 1
ATL_MQTT_THIRD == 2

ATL_WIFI_DISABLED == 0
ATL_WIFI_AP_MODE == 1
ATL_WIFI_STA_MODE == 2

\* static uint32_t chunk_size = 4096
chunk_size == 4096

(***************************************************************************)
(* C strings as sequences of characters.                                   *)
(***************************************************************************)
DigitChar == <<"0", "1", "2", "3", "4", "5", "6", "7", "8", "9">>

RECURSIVE DecNat(_)
\* decimal digits of a natural number, as printf("%d") / printf("%lu") does
DecNat(n) == IF n < 10 THEN <<DigitChar[n + 1]>>
             ELSE DecNat(n \div 10) \o <<DigitChar[(n % 10) + 1]>>

\* printf("%d", n) for a signed int
Dec(n) == IF n < 0 THEN <<"-">> \o DecNat(0 - n) ELSE DecNat(n)

\* "v1/devices/me/attributes"
TopicAttributes ==
  <<"v", "1", "/", "d", "e", "v", "i", "c", "e", "s", "/", "m", "e", "/",
    "a", "t", "t", "r", "i", "b", "u", "t", "e", "s">>

\* "v1/devices/me/attributes/response/"
TopicAttrResponse ==
  <<"v", "1", "/", "d", "e", "v", "i", "c", "e", "s", "/", "m", "e", "/",
    "a", "t", "t", "r", "i", "b", "u", "t", "e", "s", "/",
    "r", "e", "s", "p", "o", "n", "s", "e", "/">>

\* "v2/fw/response/"
TopicFwResponse ==
  <<"v", "2", "/", "f", "w", "/", "r", "e", "s", "p", "o", "n", "s", "e", "/">>

\* "/chunk/"
TopicChunk == <<"/", "c", "h", "u", "n", "k", "/">>

\* strncmp(s1, s2, n) == 0, where s1 is a buffer of at least n characters
\* without NUL and s2 is a NUL-terminated string: the comparison runs over
\* the first n characters and meets the NUL of s2 when s2 is shorter.
StrncmpEq(s1, s2, n) ==
  \A i \in 1..n : i <= Len(s2) /\ i <= Len(s1) /\ s1[i] = s2[i]

\* strstr(hay, needle) != NULL
StrStr(hay, needle) ==
  \E i \in 1..(Len(hay) + 1) :
     /\ i + Len(needle) - 1 <= Len(hay)
     /\ SubSeq(hay, i, i + Len(needle) - 1) = needle

(***************************************************************************)
(* The configuration record atl_config_t (the sections and fields the      *)
(* handlers below read or write).                                          *)
(***************************************************************************)
MkConfig(b, wm, ssid, mm) ==
  [ota         |-> [behaviour |-> b],
   wifi        |-> [mode |-> wm, sta_ssid |-> ssid],
   mqtt_client |-> [mode |-> mm]]

\* memset(&local, 0, sizeof(...)) of the whole record and of its sections
ZeroConfig == MkConfig(0, 0, "", 0)
ZeroWifi == ZeroConfig.wifi
ZeroMqttClient == ZeroConfig.mqtt_client
ZeroOta == ZeroConfig.ota

\* atl_config_create_default on the zero-initialised global
DefaultConfig == MkConfig(0, ATL_WIFI_AP_MODE, "AgroTechLab", 0)

\* the key "atl_config" is not in the NVS partition
NoBlob == [absent |-> TRUE]

\* records nvs_get_blob can load at boot: the defaults, or a record that an
\* earlier run committed
BootConfigs ==
  {DefaultConfig} \cup
  {MkConfig(b, ATL_WIFI_AP_MODE, "AgroTechLab", ATL_MQTT_AGROTECHLAB_CLOUD) :
      b \in {ATL_OTA_BEHAVIOUR_DISABLED, ATL_OTA_BEHAVIOUR_VERIFY_NOTIFY,
             ATL_OTA_BEHAVIOU_DOWNLOAD_REBOOT}}

(***************************************************************************)
(* Inbound MQTT events.                                                    *)
(***************************************************************************)
NoData == [kind |-> "none", keys |-> {}, ota_behaviour |-> 0, wifi_mode |-> 0,
           sta_ssid |-> "", mqtt_mode |-> 0, fw_title |-> "", fw_version |-> "",
           fw_size |-> 0, bytes |-> ""]

\* payload that cJSON_ParseWithLength rejects
InvalidJson == [NoData EXCEPT !.kind = "invalid"]
\* payload "{}" or "[]"
EmptyJson == [NoData EXCEPT !.kind = "empty"]
\* JSON object of shared attributes pushed by the server
AttrJson(keys, b, wm, ssid, mm) ==
  [NoData EXCEPT !.kind = "attrs", !.keys = keys, !.ota_behaviour = b,
                 !.wifi_mode = wm, !.sta_ssid = ssid, !.mqtt_mode = mm]
\* JSON object {"shared": {"fw_title":..,"fw_version":..,"fw_size":..}}
InfoJson(title, version, size) ==
  [NoData EXCEPT !.kind = "info", !.fw_title = title, !.fw_version = version,
                 !.fw_size = size]
\* raw firmware bytes
ChunkBytes(b) == [NoData EXCEPT !.kind = "raw", !.bytes = b]

\* esp_app_desc_t of the running image
RunningTitle == "GreenField"
RunningVersion == "0.1.0"

AttrPayloads ==
  {InvalidJson,
   AttrJson({"ota.behaviour"}, ATL_OTA_BEHAVIOUR_VERIFY_NOTIFY, 0, "", 0),
   AttrJson({"ota.behaviour"}, 7, 0, "", 0),
   AttrJson({"wifi.sta_ssid"}, 0, 0, "lab", 0),
   AttrJson({"mqtt_client.mode", "unknown.key"}, 0, 0, "", ATL_MQTT_THIRD)}

InfoPayloads ==
  {InvalidJson, EmptyJson,
   InfoJson(RunningTitle, RunningVersion, 4097),
   InfoJson("Other", "0.2.0", 4097),
   InfoJson(RunningTitle, "0.2.0", 0),
   InfoJson(RunningTitle, "0.2.0", 4096),
   InfoJson(RunningTitle, "0.2.0", 10000)}

ChunkPayloads == {ChunkBytes("A")}

\* what esp_mqtt_client_publish / esp_mqtt_client_subscribe return with
\* qos 1: a message id, or -1 on failure
PubResults == {-1, MaxMsgId}

\* ids that the text of an inbound response topic carries
InboundIds == {0, 1, MaxMsgId + 1}
\* the text of the topic levels that the server fills in; the level of the
\* chunk index, matched by the wildcard +, may be empty
IdTexts == {Dec(j) : j \in InboundIds}
IdxTexts == {<<>>} \cup {Dec(i) : i \in 0..MaxIdx}

AttrResponseTopic(s) == TopicAttrResponse \o s
FwChunkTopic(s, t) == TopicFwResponse \o s \o TopicChunk \o t

MkEvent(id, topic, data) == [event_id |-> id, topic |-> topic, data |-> data]
NoEvent == MkEvent("NONE", <<>>, NoData)

\* messages on the subscription "v1/devices/me/attributes"
AttrEvents == {MkEvent("MQTT_EVENT_DATA", TopicAttributes, d) : d \in AttrPayloads}
\* the attribute updates that change the update policy
OtaAttrEvents == {ev \in AttrEvents : ev.data.keys = {"ota.behaviour"}}
\* messages on the subscription "v1/devices/me/attributes/response/+"
ResponseEvents ==
  {MkEvent("MQTT_EVENT_DATA", AttrResponseTopic(s), d) :
      s \in IdTexts, d \in InfoPayloads}
\* messages on the subscription "v2/fw/response/+/chunk/+"
ChunkEvents ==
  {MkEvent("MQTT_EVENT_DATA", FwChunkTopic(s, t), d) :
      s \in IdTexts, t \in IdxTexts, d \in ChunkPayloads}

\* event->topic == NULL: the continuation of a fragmented message
NullTopic == <<>>
\* messages the DATA case drops before it looks at the topic: one without a
\* topic, and messages without data on the response topics of request id rid
DroppedEvents(rid) ==
  {MkEvent("MQTT_EVENT_DATA", NullTopic, ChunkBytes("A")),
   MkEvent("MQTT_EVENT_DATA", AttrResponseTopic(Dec(rid)), NoData),
   MkEvent("MQTT_EVENT_DATA", FwChunkTopic(Dec(rid), Dec(0)), NoData)}

(***************************************************************************)
(* HTTP POST requests.                                                     *)
(***************************************************************************)
MkRequest(h, keys, wm, ssid, mm) ==
  [handler |-> h, keys |-> keys, wifi_mode |-> wm, bssid |-> ssid, mqtt_mode |-> mm,
   ota_behaviour |-> 0]
NoRequest == MkRequest("none", {}, 0, "", 0)

HttpRequests ==
  {MkRequest("conf_wifi_post", {"wifi_mode", "bssid"}, ATL_WIFI_STA_MODE, "lab", 0),
   MkRequest("conf_mqtt_post", {"mqtt_mode"}, 0, "", ATL_MQTT_THIRD)}

\* bodies of POST /conf_fw_update_post.html: the four values of the form's
\* select element, and a value the handler does not know (7)
FwUpdateRequests ==
  {[MkRequest("conf_fw_update_post", {"ota_behaviour"}, 0, "", 0)
      EXCEPT !.ota_behaviour = b] :
      b \in {ATL_OTA_BEHAVIOUR_DISABLED, ATL_OTA_BEHAVIOUR_VERIFY_NOTIFY,
             ATL_OTA_BEHAVIOU_DOWNLOAD, ATL_OTA_BEHAVIOU_DOWNLOAD_REBOOT, 7}}

VARIABLES
  \* --- shared configuration (atl_config.c) ---
  atl_config,          \* the global record
  atl_config_mutex,    \* "free", or the task that holds the mutex
  nvs_blob,            \* the blob "atl_config" in NVS
  \* --- MQTT task: atl_mqtt5_event_handler ---
  mqtt_pc,             \* position of the handler
  mqtt_event,          \* the event being handled (the last one when idle)
  alt_config_local,    \* the handler's local copy of atl_config
  msg_id, request_id, chunk_count, chunk_current,   \* statics of the handler
  update_partition, update_handle,                  \* statics of the handler
  subscribed,          \* topic filters the client is subscribed to
  \* --- HTTP task: conf_wifi_post_handler / conf_mqtt_post_handler ---
  http_pc, http_req, wifi_config, mqtt_client_config,
  ota_config,          \* local section of conf_fw_update_post_handler
  \* --- HTTP task: api_v1_system_conf_handler ---
  api_pc, atl_config_local,
  \* --- app_main ---
  boot_pc,             \* position of app_main, "done" once it has returned
  wifi_started,        \* interface app_main started: "none", "ap" or "sta"
  \* --- event loop task: atl_wifi_event_handler ---
  sta_max_conn_retry,  \* atl_config.wifi.sta_max_conn_retry
  sta_link,            \* the station: "down", "connecting" or "up"
  s_wifi_event_group,  \* bits set in the event group
  \* --- OTA library and boot loader ---
  ota_entries,         \* handles esp_ota_begin opened and nothing closed
  ota_last_handle,     \* s_ota_ops_last_handle
  ota_written,         \* payloads esp_ota_write appended to the partition
  boot_partition,      \* partition the boot loader is configured to start
  rebooted,            \* "no", or the caller of esp_restart
  \* --- history ---
  effects,             \* calls made by the current/last handler invocation
  sess,                \* the update session: outcome of its storage calls, chunk
                       \* indices it requested, purpose of the last request
  ideal_config,        \* atl_config if every update were applied atomically
  http_hist,           \* outcome of the POST handler's copy-out and commit
  init_ret,            \* outcome of the calls of atl_config_init
  sta_attempts,        \* esp_wifi_connect calls the handler made on
                       \* consecutive disconnects, none of which connected
  persisted            \* the blob as it was when the device restarted

cfgvars == <<atl_config, atl_config_mutex, nvs_blob, ideal_config>>
mqttvars == <<mqtt_pc, mqtt_event, alt_config_local, subscribed>>
otavars == <<msg_id, request_id, chunk_count, chunk_current, update_partition,
             update_handle, ota_entries, ota_last_handle, ota_written,
             boot_partition, effects, sess>>
apivars == <<api_pc, atl_config_local>>
bootvars == <<boot_pc, wifi_started, init_ret, persisted>>
wifivars == <<sta_max_conn_retry, sta_link, s_wifi_event_group, sta_attempts>>
extvars == <<ota_config, wifivars>>
httpvars == <<http_pc, http_req, wifi_config, mqtt_client_config, http_hist,
              apivars, bootvars, extvars>>
vars == <<cfgvars, mqttvars, otavars, httpvars, rebooted>>

(***************************************************************************)
(* Mutations of a configuration copy.                                      *)
(***************************************************************************)
\* the cJSON_HasObjectItem chain of the attribute-update branch, applied to
\* the local copy: known keys with known values are taken, the rest is left
ApplyAttributes(c, d) ==
  LET c1 == IF "mqtt_client.mode" \in d.keys
                /\ d.mqtt_mode \in {ATL_MQTT_DISABLED, ATL_MQTT_AGROTECHLAB_CLOUD}
             THEN [c EXCEPT !.mqtt_client.mode = d.mqtt_mode] ELSE c
      c2 == IF "wifi.startup_mode" \in d.keys
                /\ d.wifi_mode \in {ATL_WIFI_DISABLED, ATL_WIFI_AP_MODE, ATL_WIFI_STA_MODE}
             THEN [c1 EXCEPT !.wifi.mode = d.wifi_mode] ELSE c1
      c3 == IF "wifi.sta_ssid" \in d.keys
             THEN [c2 EXCEPT !.wifi.sta_ssid = d.sta_ssid] ELSE c2
      c4 == IF "ota.behaviour" \in d.keys
                /\ d.ota_behaviour \in {ATL_OTA_BEHAVIOUR_DISABLED,
                                        ATL_OTA_BEHAVIOUR_VERIFY_NOTIFY,
                                        ATL_OTA_BEHAVIOU_DOWNLOAD,
                                        ATL_OTA_BEHAVIOU_DOWNLOAD_REBOOT}
             THEN [c3 EXCEPT !.ota.behaviour = d.ota_behaviour] ELSE c3
  IN c4

\* the strtok loop of conf_wifi_post_handler, applied to its wifi_config
ApplyWifiPost(w, req) ==
  LET w1 == IF "wifi_mode" \in req.keys
                /\ req.wifi_mode \in {ATL_WIFI_AP_MODE, ATL_WIFI_STA_MODE, ATL_WIFI_DISABLED}
             THEN [w EXCEPT !.mode = req.wifi_mode] ELSE w
  IN IF "bssid" \in req.keys THEN [w1 EXCEPT !.sta_ssid = req.bssid] ELSE w1

\* the strtok loop of conf_mqtt_post_handler, applied to its mqtt_client_config
ApplyMqttPost(m, req) ==
  IF "mqtt_mode" \in req.keys
     /\ req.mqtt_mode \in {ATL_MQTT_DISABLED, ATL_MQTT_AGROTECHLAB_CLOUD, ATL_MQTT_THIRD}
  THEN [m EXCEPT !.mode = req.mqtt_mode] ELSE m

(***************************************************************************)
(* The calls the MQTT handler makes, as functions on the record h of its   *)
(* statics, the OTA library state and the history.                         *)
(***************************************************************************)
Eff(op, arg, id, idx) == [op |-> op, arg |-> arg, id |-> id, idx |-> idx]

NoSess == [begin |-> "none", write |-> "none", end |-> "none",
           desc |-> "none", sha |-> "none", boot |-> "none",
           reqs |-> <<>>, purpose |-> "none", current |-> FALSE]

Res(ok) == IF ok THEN "ok" ELSE "fail"

\* msg_id = esp_mqtt_client_publish(client, topic, ...) returning r
Publish(h, what, id, idx, r) ==
  [h EXCEPT !.msg_id = r, !.effects = Append(@, Eff("publish", what, id, idx))]

\* publish {"fw_state": state} to v1/devices/me/telemetry
PublishState(h, state, r) == Publish(h, state, 0, 0, r)

\* the chunk request, were it to ask for the chunk after chunk_current as well
RequestChunk_Pipelined(h, r) ==
  LET rid == h.msg_id + 1
      h1 == Publish([h EXCEPT !.request_id = rid,
                              !.sess.reqs = @ \o <<h.chunk_current, h.chunk_current + 1>>,
                              !.sess.purpose = "chunk"],
                    "chunk_request", rid, h.chunk_current, r)
  IN Publish(h1, "chunk_request", rid, h.chunk_current + 1, r)

\* request_id = msg_id + 1; publish to v2/fw/request/<request_id>/chunk/<chunk_current>
RequestChunk(h, r) ==
  LET rid == h.msg_id + 1
  IN Publish([h EXCEPT !.request_id = rid,
                       !.sess.reqs = Append(@, h.chunk_current),
                       !.sess.purpose = "chunk"],
             "chunk_request", rid, h.chunk_current, r)

\* request_id = msg_id + 1; publish to v1/devices/me/attributes/request/<request_id>
RequestInfo(h, r) ==
  LET rid == h.msg_id + 1
  IN Publish([h EXCEPT !.request_id = rid,
                       !.sess.purpose = "info", !.sess.current = FALSE],
             "info_request", rid, 0, r)

\* esp_ota_abort(update_handle): frees the entry of a valid handle
OtaAbort(h) == [h EXCEPT !.ota_entries = @ \ {h.update_handle}]

\* the partition table is fixed: esp_ota_get_next_update_partition(NULL) of a
\* device running from ota_0
NextUpdatePartition == "ota_1"

\* update_partition = esp_ota_get_next_update_partition(NULL);
\* err = esp_ota_begin(update_partition, OTA_SIZE_UNKNOWN, &update_handle)
OtaBeginOk(part, rBegin) == part /= "NULL" /\ rBegin
OtaBegin(h, part, rBegin) ==
  LET ok == OtaBeginOk(part, rBegin)
      nh == h.ota_last_handle + 1
      h1 == [h EXCEPT !.update_partition = part,
                      !.sess.begin = Res(ok),
                      !.effects = Append(@, Eff("esp_ota_begin", Res(ok), 0, 0))]
  IN IF ok
     THEN [h1 EXCEPT !.ota_last_handle = nh, !.update_handle = nh,
                     !.ota_entries = @ \cup {nh}, !.ota_written = <<>>]
     ELSE h1

\* err = esp_ota_write(update_handle, event->data, event->data_len)
OtaWriteOk(h, rWrite) == h.update_handle \in h.ota_entries /\ rWrite
OtaWrite(h, data, rWrite) ==
  LET ok == OtaWriteOk(h, rWrite)
  IN [h EXCEPT !.ota_written = IF ok THEN Append(@, data.bytes) ELSE @,
               !.sess.write = IF ok /\ @ /= "fail" THEN "ok" ELSE "fail",
               !.effects = Append(@, Eff("esp_ota_write", Res(ok), 0, 0))]

\* err = esp_ota_end(update_handle): the entry is freed whatever the result
OtaEndOk(h, rEnd) == h.update_handle \in h.ota_entries /\ rEnd
OtaEnd(h, rEnd) ==
  [h EXCEPT !.ota_entries = @ \ {h.update_handle},
            !.sess.end = Res(OtaEndOk(h, rEnd)),
            !.effects = Append(@, Eff("esp_ota_end", Res(OtaEndOk(h, rEnd)), 0, 0))]

\* err = esp_ota_get_partition_description(update_partition, &new_app_info)
OtaDescription(h, rDesc) ==
  [h EXCEPT !.sess.desc = Res(rDesc),
            !.effects = Append(@, Eff("esp_ota_get_partition_description", Res(rDesc), 0, 0))]

\* err = esp_partition_get_sha256(update_partition, sha_256)
OtaSha256(h, rSha) ==
  [h EXCEPT !.sess.sha = Res(rSha),
            !.effects = Append(@, Eff("esp_partition_get_sha256", Res(rSha), 0, 0))]

\* err = esp_ota_set_boot_partition(update_partition)
OtaSetBoot(h, rBoot) ==
  [h EXCEPT !.boot_partition = IF rBoot THEN h.update_partition ELSE @,
            !.sess.boot = Res(rBoot),
            !.effects = Append(@, Eff("esp_ota_set_boot_partition", Res(rBoot), 0, 0))]

\* esp_restart()
Restart(h) ==
  [h EXCEPT !.rebooted = "ota", !.effects = Append(@, Eff("esp_restart", "", 0, 0))]

(***************************************************************************)
(* Branches of atl_mqtt5_event_handler.  r1 is the result of the status    *)
(* publishes of the invocation and r2 the result of its request publish:   *)
(* every publish overwrites msg_id, so only the last result before         *)
(* request_id is computed and the last result of the invocation are kept.  *)
(***************************************************************************)
\* the attribute-update branch is taken
IsAttributesTopic(topic) == StrncmpEq(topic, TopicAttributes, Len(topic))
\* the attribute-response branch is taken
IsAttrResponseTopic(topic) ==
  ~IsAttributesTopic(topic) /\ StrStr(topic, TopicAttrResponse)
\* the firmware-chunk branch is taken
IsFwChunkTopic(topic) ==
  /\ ~IsAttributesTopic(topic)
  /\ ~StrStr(topic, TopicAttrResponse)
  /\ StrStr(topic, TopicFwResponse)

\* sprintf(check_event_topic, "v1/devices/me/attributes/response/%d", request_id);
\* strncmp(event->topic, check_event_topic, event->topic_len) == 0
AcceptInfoResponse(topic, rid) ==
  StrncmpEq(topic, TopicAttrResponse \o Dec(rid), Len(topic))

\* the chunk check, were it to compare the fixed part "v2/fw/response/" only
AcceptChunkResponse_IgnoreId(topic, rid) ==
  StrncmpEq(topic, TopicFwResponse, Len(TopicFwResponse))

\* sprintf(check_event_topic, "v2/fw/response/%d/chunk/", request_id);
\* strncmp(event->topic, check_event_topic, event->topic_len) == 0
AcceptChunkResponse(topic, rid) ==
  StrncmpEq(topic, TopicFwResponse \o Dec(rid) \o TopicChunk, Len(topic))

\* the chunk count, were the division to round down
CeilDiv_RoundsDown(size, c) == size \div c

\* chunk_count = ceil(cJSON_GetNumberValue(fw_size) / chunk_size)
CeilDiv(size, c) == (size + c - 1) \div c

\* case MQTT_EVENT_CONNECTED
OnConnected(h, local, r1, r2) ==
  IF local.mqtt_client.mode = ATL_MQTT_AGROTECHLAB_CLOUD
  THEN LET h1 == Publish(h, "device_status", 0, 0, r1)
       IN IF local.ota.behaviour /= ATL_OTA_BEHAVIOUR_DISABLED
          THEN RequestInfo(h1, r2) ELSE h1
  ELSE h

\* topic filters subscribed to in case MQTT_EVENT_CONNECTED
Subscriptions(local) ==
  IF local.mqtt_client.mode = ATL_MQTT_AGROTECHLAB_CLOUD
  THEN {"attributes", "attributes/response/+"} \cup
       (IF local.ota.behaviour /= ATL_OTA_BEHAVIOUR_DISABLED
        THEN {"fw/response/+/chunk/+"} ELSE {})
  ELSE {}

\* the response branch, were it to start the download whenever the version
\* differs, whatever the title
OnInfoResponse_IgnoresTitle(h, data, r1, r2) ==
  IF data.fw_title = RunningTitle /\ data.fw_version = RunningVersion
  THEN PublishState([h EXCEPT !.sess.current = TRUE], "UPDATED", r1)
  ELSE IF data.fw_version /= RunningVersion
  THEN LET h1 == PublishState(h, "DOWNLOADING", r1)
           h2 == [h1 EXCEPT !.chunk_count = CeilDiv(data.fw_size, chunk_size),
                            !.sess = NoSess]
       IN RequestChunk(h2, r2)
  ELSE h

\* an accepted, parsed attribute response
OnInfoResponse(h, data, r1, r2) ==
  IF data.fw_title = RunningTitle /\ data.fw_version = RunningVersion
  THEN PublishState([h EXCEPT !.sess.current = TRUE], "UPDATED", r1)
  ELSE IF data.fw_title = RunningTitle /\ data.fw_version /= RunningVersion
  THEN LET h1 == PublishState(h, "DOWNLOADING", r1)
           h2 == [h1 EXCEPT !.chunk_count = CeilDiv(data.fw_size, chunk_size),
                            !.sess = NoSess]
       IN RequestChunk(h2, r2)
  ELSE h

\* the activation, were esp_restart to follow esp_ota_set_boot_partition
\* whatever it returned
Activate_RestartsRegardless(h, rBoot, r1) ==
  LET h1 == PublishState(h, "VERIFIED", r1)
      h2 == PublishState(h1, "UPDATING", r1)
      h3 == OtaSetBoot(h2, rBoot)
  IN IF ~rBoot THEN Restart(PublishState(h3, "FAILED", r1)) ELSE Restart(h3)

\* VERIFIED, UPDATING, esp_ota_set_boot_partition, esp_restart
Activate(h, rBoot, r1) ==
  LET h1 == PublishState(h, "VERIFIED", r1)
      h2 == PublishState(h1, "UPDATING", r1)
      h3 == OtaSetBoot(h2, rBoot)
  IN IF ~rBoot THEN PublishState(h3, "FAILED", r1) ELSE Restart(h3)

\* the branch chunk_current == chunk_count, were the error block of esp_ota_end
\* to fall through to the activation
Finalize_ActivateAfterEndFailure(h, rEnd, rDesc, rSha, rBoot, r1) ==
  LET h1 == PublishState(h, "DOWNLOADED", r1)
      h2 == OtaEnd(h1, rEnd)
  IN IF ~OtaEndOk(h1, rEnd) THEN Activate(PublishState(h2, "FAILED", r1), rBoot, r1)
     ELSE LET h3 == OtaDescription(h2, rDesc)
          IN IF ~rDesc THEN h3
             ELSE LET h4 == OtaSha256(h3, rSha)
                  IN IF ~rSha THEN h4 ELSE Activate(h4, rBoot, r1)

\* the branch chunk_current == chunk_count
Finalize(h, rEnd, rDesc, rSha, rBoot, r1) ==
  LET h1 == PublishState(h, "DOWNLOADED", r1)
      h2 == OtaEnd(h1, rEnd)
  IN IF ~OtaEndOk(h1, rEnd) THEN PublishState(h2, "FAILED", r1)
     ELSE LET h3 == OtaDescription(h2, rDesc)
          IN IF ~rDesc THEN h3
             ELSE LET h4 == OtaSha256(h3, rSha)
                  IN IF ~rSha THEN h4 ELSE Activate(h4, rBoot, r1)

\* esp_ota_get_running_partition(): the image the device runs
RunningPartition == "ota_0"

\* the comparison of the configured boot partition with the running one:
\* both arms of the check only log
BootPartitionMismatch(h) == h.boot_partition /= RunningPartition
CheckBootPartition(h) == IF BootPartitionMismatch(h) THEN h ELSE h

\* the block if (chunk_current == 0), were a mismatch of the boot partition
\* to fail the session before the partition is opened
PrepareFirstChunk_AbortsOnMismatch(h, part, rBegin, r1) ==
  IF h.chunk_current = 0
  THEN IF BootPartitionMismatch(h)
       THEN PublishState(h, "FAILED", r1)
       ELSE LET h1 == OtaBegin(h, part, rBegin)
            IN IF ~OtaBeginOk(part, rBegin)
               THEN PublishState(OtaAbort(h1), "FAILED", r1) ELSE h1
  ELSE h

\* the block if (chunk_current == 0)
PrepareFirstChunk(h, part, rBegin, r1) ==
  IF h.chunk_current = 0
  THEN LET h1 == OtaBegin(CheckBootPartition(h), part, rBegin)
       IN IF ~OtaBeginOk(part, rBegin)
          THEN PublishState(OtaAbort(h1), "FAILED", r1) ELSE h1
  ELSE h

\* esp_ota_write and its error block
WriteChunk(h, data, rWrite, r1) ==
  LET h1 == OtaWrite(h, data, rWrite)
  IN IF ~OtaWriteOk(h, rWrite)
     THEN PublishState(OtaAbort(h1), "FAILED", r1) ELSE h1

\* the end of the chunk branch, were the next request published before
\* chunk_current++
AdvanceChunk_RequestBeforeIncrement(h, rEnd, rDesc, rSha, rBoot, r1, r2) ==
  LET h1 == [h EXCEPT !.chunk_current = @ + 1]
  IN IF h1.chunk_current < h1.chunk_count
     THEN [RequestChunk(h, r2) EXCEPT !.chunk_current = @ + 1]
     ELSE IF h1.chunk_current = h1.chunk_count
     THEN Finalize(h1, rEnd, rDesc, rSha, rBoot, r1)
     ELSE h1

\* chunk_current++ and the request of the next chunk or the finalisation
AdvanceChunk(h, rEnd, rDesc, rSha, rBoot, r1, r2) ==
  LET h1 == [h EXCEPT !.chunk_current = @ + 1]
  IN IF h1.chunk_current < h1.chunk_count THEN RequestChunk(h1, r2)
     ELSE IF h1.chunk_current = h1.chunk_count
     THEN Finalize(h1, rEnd, rDesc, rSha, rBoot, r1)
     ELSE h1

\* an accepted firmware chunk
OnFwChunk(h, data, part, rBegin, rWrite, rEnd, rDesc, rSha, rBoot, r1, r2) ==
  LET h1 == PrepareFirstChunk(h, part, rBegin, r1)
      h2 == WriteChunk(h1, data, rWrite, r1)
  IN AdvanceChunk(h2, rEnd, rDesc, rSha, rBoot, r1, r2)

(***************************************************************************)
(* State of the handler as a record, and back.                             *)
(***************************************************************************)
HState ==
  [msg_id |-> msg_id, request_id |-> request_id, chunk_count |-> chunk_count,
   chunk_current |-> chunk_current, update_partition |-> update_partition,
   update_handle |-> update_handle, ota_entries |-> ota_entries,
   ota_last_handle |-> ota_last_handle, ota_written |-> ota_written,
   boot_partition |-> boot_partition, rebooted |-> rebooted,
   effects |-> effects, sess |-> sess]

SetH(h) ==
  /\ msg_id' = h.msg_id
  /\ request_id' = h.request_id
  /\ chunk_count' = h.chunk_count
  /\ chunk_current' = h.chunk_current
  /\ update_partition' = h.update_partition
  /\ update_handle' = h.update_handle
  /\ ota_entries' = h.ota_entries
  /\ ota_last_handle' = h.ota_last_handle
  /\ ota_written' = h.ota_written
  /\ boot_partition' = h.boot_partition
  /\ rebooted' = h.rebooted
  /\ effects' = h.effects
  /\ sess' = h.sess

Running == rebooted = "no"

(***************************************************************************)
(* Initial state: after app_main, with the MQTT handler registered.        *)
(***************************************************************************)
InitRam ==
  /\ ideal_config = atl_config
  /\ nvs_blob = atl_config
  /\ atl_config_mutex = "free"
  /\ mqtt_pc = "idle"
  /\ mqtt_event = NoEvent
  /\ alt_config_local = ZeroConfig
  /\ msg_id = 0
  /\ request_id = 0
  /\ chunk_count = 0
  /\ chunk_current = 0
  /\ update_partition = "NULL"
  /\ update_handle = 0
  /\ subscribed = {}
  /\ http_pc = "idle"
  /\ http_req = NoRequest
  /\ wifi_config = ZeroWifi
  /\ mqtt_client_config = ZeroMqttClient
  /\ http_hist = [copy_out |-> "none", commit |-> "none"]
  /\ api_pc = "idle"
  /\ atl_config_local = ZeroConfig
  /\ ota_config = ZeroOta
  /\ init_ret = [ret |-> "none", get |-> "none", set |-> "none", commit |-> "none"]
  /\ s_wifi_event_group = {}
  /\ sta_attempts = 0
  /\ persisted = NoBlob
  /\ ota_entries = {}
  /\ ota_last_handle = 0
  /\ ota_written = <<>>
  /\ rebooted = "no"
  /\ effects = <<>>
  /\ sess = NoSess

\* the device booted the image the boot loader is configured to start, and
\* the access point is up
Init ==
  /\ atl_config \in BootConfigs
  /\ wifi_started = "ap"
  /\ boot_pc = "done"
  /\ sta_link = "down"
  /\ sta_max_conn_retry = MaxRetry
  /\ boot_partition = RunningPartition
  /\ InitRam

\* the boot loader fell back to ota_0 although ota_1 is the configured boot
\* partition (invalid image or damaged OTA data)
InitFallback ==
  /\ atl_config = MkConfig(ATL_OTA_BEHAVIOU_DOWNLOAD_REBOOT, ATL_WIFI_AP_MODE,
                           "AgroTechLab", ATL_MQTT_AGROTECHLAB_CLOUD)
  /\ wifi_started = "ap"
  /\ boot_pc = "done"
  /\ sta_link = "down"
  /\ sta_max_conn_retry = MaxRetry
  /\ boot_partition = "ota_1"
  /\ InitRam

(***************************************************************************)
(* atl_config_commit_nvs: declared in atl_config.h, serialises the         *)
(* in-memory record to the blob "atl_config"; it can fail.                 *)
(***************************************************************************)
CommitNvs(ok) == nvs_blob' = IF ok THEN atl_config ELSE nvs_blob

(***************************************************************************)
(* MQTT task.  The event is an input that the handler first looks at in    *)
(* its switch statement, after the copy-out; it is chosen there.           *)
(***************************************************************************)
ConnectedEvent == MkEvent("MQTT_EVENT_CONNECTED", <<>>, NoData)
DisconnectedEvent == MkEvent("MQTT_EVENT_DISCONNECTED", <<>>, NoData)

\* data arrives only on subscribed topic filters
Deliverable ==
  (IF "attributes" \in subscribed THEN AttrEvents ELSE {})
  \cup (IF "attributes/response/+" \in subscribed THEN ResponseEvents ELSE {})
  \cup (IF "fw/response/+/chunk/+" \in subscribed THEN ChunkEvents ELSE {})

\* handler entry: memset of the local copy, xSemaphoreTake
MqttTake ==
  /\ Running /\ mqtt_pc = "idle" /\ atl_config_mutex = "free"
  /\ atl_config_mutex' = "mqtt"
  /\ mqtt_event' = NoEvent
  /\ alt_config_local' = ZeroConfig
  /\ effects' = <<>>
  /\ mqtt_pc' = "copy_out"
  /\ UNCHANGED <<atl_config, nvs_blob, ideal_config, subscribed, httpvars, rebooted,
                 msg_id, request_id, chunk_count, chunk_current, update_partition,
                 update_handle, ota_entries, ota_last_handle, ota_written,
                 boot_partition, sess>>

\* memcpy(&alt_config_local, &atl_config, ...); xSemaphoreGive
MqttCopyOut ==
  /\ Running /\ mqtt_pc = "copy_out" /\ atl_config_mutex = "mqtt"
  /\ alt_config_local' = atl_config
  /\ atl_config_mutex' = "free"
  /\ mqtt_pc' = "dispatch"
  /\ UNCHANGED <<atl_config, nvs_blob, ideal_config, mqtt_event, subscribed,
                 otavars, httpvars, rebooted>>

\* case MQTT_EVENT_CONNECTED
MqttConnected ==
  /\ Running /\ mqtt_pc = "dispatch"
  /\ mqtt_event' = ConnectedEvent
  /\ \E r1 \in PubResults, r2 \in PubResults :
        SetH(OnConnected(HState, alt_config_local, r1, r2))
  /\ subscribed' = subscribed \cup Subscriptions(alt_config_local)
  /\ alt_config_local' = ZeroConfig
  /\ mqtt_pc' = "idle"
  /\ UNCHANGED <<cfgvars, httpvars>>

\* the cases that only log
MqttOtherEvent ==
  /\ Running /\ mqtt_pc = "dispatch"
  /\ mqtt_event' = DisconnectedEvent
  /\ alt_config_local' = ZeroConfig
  /\ mqtt_pc' = "idle"
  /\ UNCHANGED <<cfgvars, subscribed, otavars, httpvars, rebooted>>

\* case MQTT_EVENT_DATA: event->topic == NULL, or event->data_len == 0
DropsMessage(ev) == ev.topic = NullTopic \/ ev.data.kind = "none"

MqttDataDropped(ev) ==
  /\ Running /\ mqtt_pc = "dispatch"
  /\ subscribed /= {}
  /\ ev \in DroppedEvents(request_id)
  /\ DropsMessage(ev)
  /\ mqtt_event' = ev
  /\ alt_config_local' = ZeroConfig
  /\ mqtt_pc' = "idle"
  /\ UNCHANGED <<cfgvars, subscribed, otavars, httpvars, rebooted>>

\* case MQTT_EVENT_DATA, topic v1/devices/me/attributes: parse and change the
\* local copy
MqttAttributes(ev) ==
  /\ Running /\ mqtt_pc = "dispatch"
  /\ ev \in Deliverable
  /\ IsAttributesTopic(ev.topic)
  /\ mqtt_event' = ev
  /\ IF ev.data.kind = "attrs"
     THEN /\ alt_config_local' = ApplyAttributes(alt_config_local, ev.data)
          /\ mqtt_pc' = "take2"
     ELSE /\ alt_config_local' = ZeroConfig
          /\ mqtt_pc' = "idle"
  /\ UNCHANGED <<cfgvars, subscribed, otavars, httpvars, rebooted>>

\* xSemaphoreTake before the write-back
MqttTake2 ==
  /\ Running /\ mqtt_pc = "take2" /\ atl_config_mutex = "free"
  /\ atl_config_mutex' = "mqtt"
  /\ mqtt_pc' = "copy_in"
  /\ UNCHANGED <<atl_config, nvs_blob, ideal_config, mqtt_event, alt_config_local,
                 subscribed, otavars, httpvars, rebooted>>

\* the write-back, were the mutex to be given only after the commit
MqttCopyIn_KeepsLock ==
  /\ Running /\ mqtt_pc = "copy_in" /\ atl_config_mutex = "mqtt"
  /\ atl_config' = alt_config_local
  /\ ideal_config' = ApplyAttributes(ideal_config, mqtt_event.data)
  /\ mqtt_pc' = "commit"
  /\ UNCHANGED <<atl_config_mutex, nvs_blob, mqtt_event, alt_config_local, subscribed,
                 otavars, httpvars, rebooted>>

\* memcpy(&atl_config, &alt_config_local, ...); xSemaphoreGive
MqttCopyIn ==
  /\ Running /\ mqtt_pc = "copy_in" /\ atl_config_mutex = "mqtt"
  /\ atl_config' = alt_config_local
  /\ ideal_config' = ApplyAttributes(ideal_config, mqtt_event.data)
  /\ atl_config_mutex' = "free"
  /\ mqtt_pc' = "commit"
  /\ UNCHANGED <<nvs_blob, mqtt_event, alt_config_local, subscribed, otavars,
                 httpvars, rebooted>>

\* atl_config_commit_nvs()
MqttCommit ==
  /\ Running /\ mqtt_pc = "commit"
  /\ \E ok \in BOOLEAN : CommitNvs(ok)
  /\ alt_config_local' = ZeroConfig
  /\ mqtt_pc' = "idle"
  /\ UNCHANGED <<atl_config, atl_config_mutex, ideal_config, mqtt_event,
                 subscribed, otavars, httpvars, rebooted>>

\* the response branch, were it to ask again when the payload of the awaited
\* response is empty or does not parse
MqttAttrResponse_AsksAgain(ev) ==
  /\ Running /\ mqtt_pc = "dispatch"
  /\ ev \in Deliverable
  /\ IsAttrResponseTopic(ev.topic)
  /\ mqtt_event' = ev
  /\ IF AcceptInfoResponse(ev.topic, request_id)
     THEN \E r1 \in PubResults, r2 \in PubResults :
             SetH(IF ev.data.kind = "info"
                  THEN OnInfoResponse(HState, ev.data, r1, r2)
                  ELSE RequestInfo(HState, r2))
     ELSE UNCHANGED <<otavars, rebooted>>
  /\ alt_config_local' = ZeroConfig
  /\ mqtt_pc' = "idle"
  /\ UNCHANGED <<cfgvars, subscribed, httpvars>>

\* case MQTT_EVENT_DATA, topic v1/devices/me/attributes/response/...
MqttAttrResponse(ev) ==
  /\ Running /\ mqtt_pc = "dispatch"
  /\ ev \in Deliverable
  /\ IsAttrResponseTopic(ev.topic)
  /\ mqtt_event' = ev
  /\ IF AcceptInfoResponse(ev.topic, request_id) /\ ev.data.kind = "info"
     THEN \E r1 \in PubResults, r2 \in PubResults :
             SetH(OnInfoResponse(HState, ev.data, r1, r2))
     ELSE UNCHANGED <<otavars, rebooted>>
  /\ alt_config_local' = ZeroConfig
  /\ mqtt_pc' = "idle"
  /\ UNCHANGED <<cfgvars, subscribed, httpvars>>

\* case MQTT_EVENT_DATA, topic v2/fw/response/...
MqttFwChunk(ev) ==
  /\ Running /\ mqtt_pc = "dispatch"
  /\ ev \in Deliverable
  /\ IsFwChunkTopic(ev.topic)
  /\ mqtt_event' = ev
  /\ IF AcceptChunkResponse(ev.topic, request_id)
     THEN /\ chunk_current < MaxChunk
          /\ \E rBegin \in BOOLEAN, rWrite \in BOOLEAN, rEnd \in BOOLEAN,
                rDesc \in BOOLEAN, rSha \in BOOLEAN, rBoot \in BOOLEAN,
                r1 \in PubResults, r2 \in PubResults :
                SetH(OnFwChunk(HState, ev.data, NextUpdatePartition, rBegin, rWrite,
                               rEnd, rDesc, rSha, rBoot, r1, r2))
     ELSE UNCHANGED <<otavars, rebooted>>
  /\ alt_config_local' = ZeroConfig
  /\ mqtt_pc' = "idle"
  /\ UNCHANGED <<cfgvars, subscribed, httpvars>>

(***************************************************************************)
(* HTTP task: conf_wifi_post_handler and conf_mqtt_post_handler.  The      *)
(* server exists once app_main has started the WiFi interface.             *)
(***************************************************************************)
Serving == Running /\ wifi_started /= "none" /\ boot_pc /= "wifi_wait"

NoHist == [copy_out |-> "none", commit |-> "none"]

\* body received, memset of the local section, xSemaphoreTake
HttpTake(req) ==
  /\ Serving /\ http_pc = "idle" /\ atl_config_mutex = "free"
  /\ req \in HttpRequests
  /\ http_req' = req
  /\ wifi_config' = ZeroWifi
  /\ mqtt_client_config' = ZeroMqttClient
  /\ http_hist' = NoHist
  /\ atl_config_mutex' = "http"
  /\ http_pc' = "copy_out"
  /\ UNCHANGED <<atl_config, nvs_blob, ideal_config, mqttvars, otavars, rebooted,
                 apivars, bootvars, extvars>>

\* memcpy of the section into the local copy; xSemaphoreGive; strtok loop
HttpCopyOut ==
  /\ Serving /\ http_pc = "copy_out" /\ atl_config_mutex = "http"
  /\ IF http_req.handler = "conf_wifi_post"
     THEN /\ wifi_config' = ApplyWifiPost(atl_config.wifi, http_req)
          /\ UNCHANGED mqtt_client_config
     ELSE /\ mqtt_client_config' = ApplyMqttPost(atl_config.mqtt_client, http_req)
          /\ UNCHANGED wifi_config
  /\ http_hist' = [http_hist EXCEPT !.copy_out = "ok"]
  /\ atl_config_mutex' = "free"
  /\ http_pc' = "take2"
  /\ UNCHANGED <<atl_config, nvs_blob, ideal_config, http_req, mqttvars, otavars,
                 rebooted, apivars, bootvars, extvars>>

\* xSemaphoreTake before the write-back
HttpTake2 ==
  /\ Serving /\ http_pc = "take2" /\ atl_config_mutex = "free"
  /\ atl_config_mutex' = "http"
  /\ http_pc' = "copy_in"
  /\ UNCHANGED <<atl_config, nvs_blob, ideal_config, http_req, wifi_config,
                 mqtt_client_config, http_hist, mqttvars, otavars, rebooted,
                 apivars, bootvars, extvars>>

\* the write-back, were the mutex given while the memcpy is under way
HttpCopyIn_GivesEarly ==
  /\ Serving /\ http_pc = "copy_in" /\ atl_config_mutex = "http"
  /\ IF http_req.handler = "conf_wifi_post"
     THEN /\ atl_config' = [atl_config EXCEPT !.wifi.mode = wifi_config.mode]
          /\ ideal_config' = [ideal_config EXCEPT
                                !.wifi.mode = ApplyWifiPost(ideal_config.wifi, http_req).mode]
     ELSE /\ atl_config' = [atl_config EXCEPT !.mqtt_client.mode = mqtt_client_config.mode]
          /\ ideal_config' = [ideal_config EXCEPT
                                !.mqtt_client.mode =
                                   ApplyMqttPost(ideal_config.mqtt_client, http_req).mode]
  /\ atl_config_mutex' = "free"
  /\ http_pc' = "copy_in2"
  /\ UNCHANGED <<nvs_blob, http_req, wifi_config, mqtt_client_config, http_hist,
                 mqttvars, otavars, rebooted, apivars, bootvars, extvars>>

\* memcpy of the local copy into the section of atl_config: the bytes of the
\* first field are written, the rest of the section still holds the old value
HttpCopyIn ==
  /\ Serving /\ http_pc = "copy_in" /\ atl_config_mutex = "http"
  /\ IF http_req.handler = "conf_wifi_post"
     THEN /\ atl_config' = [atl_config EXCEPT !.wifi.mode = wifi_config.mode]
          /\ ideal_config' = [ideal_config EXCEPT
                                !.wifi.mode = ApplyWifiPost(ideal_config.wifi, http_req).mode]
     ELSE /\ atl_config' = [atl_config EXCEPT !.mqtt_client.mode = mqtt_client_config.mode]
          /\ ideal_config' = [ideal_config EXCEPT
                                !.mqtt_client.mode =
                                   ApplyMqttPost(ideal_config.mqtt_client, http_req).mode]
  /\ http_pc' = "copy_in2"
  /\ UNCHANGED <<atl_config_mutex, nvs_blob, http_req, wifi_config,
                 mqtt_client_config, http_hist, mqttvars, otavars, rebooted,
                 apivars, bootvars, extvars>>

\* the memcpy completes; xSemaphoreGive
HttpCopyIn2 ==
  /\ Serving /\ http_pc = "copy_in2"
  /\ IF http_req.handler = "conf_wifi_post"
     THEN /\ atl_config' = [atl_config EXCEPT !.wifi = wifi_config]
          /\ ideal_config' = [ideal_config EXCEPT !.wifi = ApplyWifiPost(@, http_req)]
     ELSE /\ atl_config' = [atl_config EXCEPT !.mqtt_client = mqtt_client_config]
          /\ ideal_config' = [ideal_config EXCEPT
                                !.mqtt_client = ApplyMqttPost(@, http_req)]
  /\ atl_config_mutex' = "free"
  /\ http_pc' = "commit"
  /\ UNCHANGED <<nvs_blob, http_req, wifi_config, mqtt_client_config, http_hist,
                 mqttvars, otavars, rebooted, apivars, bootvars, extvars>>

\* atl_config_commit_nvs(), result ignored
HttpCommit ==
  /\ Serving /\ http_pc = "commit"
  /\ \E ok \in BOOLEAN :
        /\ CommitNvs(ok)
        /\ http_hist' = [http_hist EXCEPT !.commit = Res(ok)]
  /\ http_pc' = "restart"
  /\ UNCHANGED <<atl_config, atl_config_mutex, ideal_config, http_req, wifi_config,
                 mqtt_client_config, mqttvars, otavars, rebooted, apivars, bootvars, extvars>>

\* esp_restart() at the end of the POST handler
HttpRestart ==
  /\ Serving /\ http_pc = "restart"
  /\ rebooted' = "http"
  /\ http_pc' = "done"
  /\ UNCHANGED <<cfgvars, http_req, wifi_config, mqtt_client_config, http_hist,
                 mqttvars, otavars, apivars, bootvars, extvars>>

(***************************************************************************)
(* HTTP task: api_v1_system_conf_handler, the reader of the whole record.  *)
(***************************************************************************)
\* memset of the local copy, xSemaphoreTake
ApiTake ==
  /\ Serving /\ api_pc = "idle" /\ atl_config_mutex = "free"
  /\ atl_config_local' = ZeroConfig
  /\ atl_config_mutex' = "api"
  /\ api_pc' = "copy"
  /\ UNCHANGED <<atl_config, nvs_blob, ideal_config, mqttvars, otavars, rebooted,
                 http_pc, http_req, wifi_config, mqtt_client_config, http_hist,
                 bootvars, extvars>>

\* the copy of the reader, were the handler to go on without xSemaphoreGive
ApiCopy_ReturnsHolding ==
  /\ Serving /\ api_pc = "copy" /\ atl_config_mutex = "api"
  /\ atl_config_local' = atl_config
  /\ api_pc' = "send"
  /\ UNCHANGED <<cfgvars, mqttvars, otavars, rebooted,
                 http_pc, http_req, wifi_config, mqtt_client_config, http_hist,
                 bootvars, extvars>>

\* memcpy(&atl_config_local, &atl_config, ...), the response's status, type
\* and header fields are set; xSemaphoreGive
ApiCopy ==
  /\ Serving /\ api_pc = "copy" /\ atl_config_mutex = "api"
  /\ atl_config_local' = atl_config
  /\ atl_config_mutex' = "free"
  /\ api_pc' = "send"
  /\ UNCHANGED <<atl_config, nvs_blob, ideal_config, mqttvars, otavars, rebooted,
                 http_pc, http_req, wifi_config, mqtt_client_config, http_hist,
                 bootvars, extvars>>

\* the JSON document is built from the local copy; httpd_resp_sendstr
ApiSend ==
  /\ Serving /\ api_pc = "send"
  /\ atl_config_local' = ZeroConfig
  /\ api_pc' = "idle"
  /\ UNCHANGED <<cfgvars, mqttvars, otavars, rebooted, http_pc, http_req,
                 wifi_config, mqtt_client_config, http_hist, bootvars, extvars>>

(***************************************************************************)
(* app_main after a restart: RAM starts from zero, flash is what it was.   *)
(***************************************************************************)
\* nvs_flash_erase(), the first statement of atl_storage_init
StorageInit(blob, rErase) == IF rErase THEN NoBlob ELSE blob

\* nvs_get_blob on the key "atl_config"
GetResults(blob) == IF blob = NoBlob THEN {"not_found", "error"} ELSE {"ok", "error"}

\* atl_config_init, were the default record not written back
ConfigInit_NoWriteBack(blob, rMutex, rOpen, rGet, rSet, rCommit, rFlushed) ==
  LET none == [ret |-> "ESP_FAIL", get |-> "none", set |-> "none", commit |-> "none"]
  IN IF ~rMutex THEN [mutex |-> "null", config |-> ZeroConfig, blob |-> blob, hist |-> none]
     ELSE IF ~rOpen
     THEN [mutex |-> "free", config |-> ZeroConfig, blob |-> blob, hist |-> none]
     ELSE IF rGet = "error"
     THEN [mutex |-> "free", config |-> ZeroConfig, blob |-> blob,
           hist |-> [none EXCEPT !.ret = "ESP_ERR_NVS", !.get = rGet]]
     ELSE IF rGet = "ok"
     THEN [mutex |-> "free", config |-> blob, blob |-> blob,
           hist |-> [none EXCEPT !.ret = "ESP_OK", !.get = rGet]]
     ELSE [mutex |-> "free", config |-> DefaultConfig, blob |-> blob,
           hist |-> [ret |-> "ESP_OK", get |-> rGet, set |-> "none", commit |-> "none"]]

\* atl_config_init: the mutex, nvs_open, nvs_get_blob into atl_config, and on
\* ESP_ERR_NVS_NOT_FOUND atl_config_create_default, nvs_set_blob, nvs_commit.
\* rFlushed: whether a blob that was set reached the flash although
\* nvs_commit reported an error
ConfigInit(blob, rMutex, rOpen, rGet, rSet, rCommit, rFlushed) ==
  LET none == [ret |-> "ESP_FAIL", get |-> "none", set |-> "none", commit |-> "none"]
  IN IF ~rMutex THEN [mutex |-> "null", config |-> ZeroConfig, blob |-> blob, hist |-> none]
     ELSE IF ~rOpen
     THEN [mutex |-> "free", config |-> ZeroConfig, blob |-> blob, hist |-> none]
     ELSE IF rGet = "error"
     THEN [mutex |-> "free", config |-> ZeroConfig, blob |-> blob,
           hist |-> [none EXCEPT !.ret = "ESP_ERR_NVS", !.get = rGet]]
     ELSE IF rGet = "ok"
     THEN [mutex |-> "free", config |-> blob, blob |-> blob,
           hist |-> [none EXCEPT !.ret = "ESP_OK", !.get = rGet]]
     ELSE IF ~rSet
     THEN [mutex |-> "free", config |-> DefaultConfig, blob |-> blob,
           hist |-> [ret |-> "ESP_ERR_NVS", get |-> rGet, set |-> "fail",
                     commit |-> "none"]]
     ELSE IF ~rCommit
     THEN [mutex |-> "free", config |-> DefaultConfig,
           blob |-> IF rFlushed THEN DefaultConfig ELSE blob,
           hist |-> [ret |-> "ESP_ERR_NVS", get |-> rGet, set |-> "ok",
                     commit |-> "fail"]]
     ELSE [mutex |-> "free", config |-> DefaultConfig, blob |-> DefaultConfig,
           hist |-> [ret |-> "ESP_OK", get |-> rGet, set |-> "ok", commit |-> "ok"]]

NoInit == [ret |-> "none", get |-> "none", set |-> "none", commit |-> "none"]

\* reset, then app_main up to atl_storage_init()
AppStorageInit ==
  /\ rebooted /= "no" /\ boot_pc = "done"
  /\ persisted' = nvs_blob
  /\ \E rErase \in BOOLEAN : nvs_blob' = StorageInit(nvs_blob, rErase)
  /\ atl_config' = ZeroConfig
  /\ ideal_config' = ZeroConfig
  /\ atl_config_mutex' = "null"
  /\ mqtt_pc' = "idle" /\ mqtt_event' = NoEvent /\ alt_config_local' = ZeroConfig
  /\ subscribed' = {}
  /\ msg_id' = 0 /\ request_id' = 0 /\ chunk_count' = 0 /\ chunk_current' = 0
  /\ update_partition' = "NULL" /\ update_handle' = 0
  /\ ota_entries' = {} /\ ota_last_handle' = 0
  /\ effects' = <<>> /\ sess' = NoSess
  /\ http_pc' = "idle" /\ http_req' = NoRequest
  /\ wifi_config' = ZeroWifi /\ mqtt_client_config' = ZeroMqttClient
  /\ http_hist' = NoHist
  /\ ota_config' = ZeroOta
  /\ api_pc' = "idle" /\ atl_config_local' = ZeroConfig
  /\ wifi_started' = "none"
  /\ sta_link' = "down" /\ s_wifi_event_group' = {} /\ sta_attempts' = 0
  /\ init_ret' = NoInit
  /\ boot_pc' = "config"
  /\ UNCHANGED <<ota_written, boot_partition, rebooted, sta_max_conn_retry>>

\* atl_config_init(); app_main ignores what it returns
AppConfigInit ==
  /\ boot_pc = "config"
  /\ \E rMutex \in BOOLEAN, rOpen \in BOOLEAN, rGet \in GetResults(nvs_blob),
        rSet \in BOOLEAN, rCommit \in BOOLEAN, rFlushed \in BOOLEAN :
        LET r == ConfigInit(nvs_blob, rMutex, rOpen, rGet, rSet, rCommit, rFlushed)
        IN /\ atl_config_mutex' = r.mutex
           /\ atl_config' = r.config
           /\ ideal_config' = r.config
           /\ nvs_blob' = r.blob
           /\ init_ret' = r.hist
  /\ boot_pc' = "wifi"
  /\ UNCHANGED <<mqttvars, otavars, rebooted, http_pc, http_req, wifi_config,
                 mqtt_client_config, http_hist, apivars, wifi_started, persisted,
                 extvars>>

\* app_main looks at atl_config.wifi.mode; atl_wifi_init_softap or
\* atl_wifi_init_sta registers the event handler and takes the mutex
AppWifiTake ==
  /\ boot_pc = "wifi"
  /\ IF atl_config.wifi.mode = ATL_WIFI_DISABLED
     THEN /\ boot_pc' = "done"
          /\ rebooted' = "no"
          /\ init_ret' = NoInit
          /\ persisted' = NoBlob
          /\ UNCHANGED <<atl_config_mutex, wifi_started>>
     ELSE /\ atl_config_mutex = "free"
          /\ atl_config_mutex' = "app"
          /\ wifi_started' = IF atl_config.wifi.mode = ATL_WIFI_AP_MODE
                             THEN "ap" ELSE "sta"
          /\ boot_pc' = "wifi_copy"
          /\ UNCHANGED <<rebooted, init_ret, persisted>>
  /\ UNCHANGED <<atl_config, nvs_blob, ideal_config, mqttvars, otavars, http_pc,
                 http_req, wifi_config, mqtt_client_config, http_hist, apivars,
                 extvars>>

\* the fields of atl_config.wifi are copied into the driver's wifi_config_t;
\* xSemaphoreGive; esp_wifi_set_config, esp_wifi_start, atl_webserver_init;
\* in station mode the access point answers and the station gets its address
\* before atl_wifi_init_sta returns
AppWifiCopy ==
  /\ boot_pc = "wifi_copy" /\ atl_config_mutex = "app"
  /\ atl_config_mutex' = "free"
  /\ boot_pc' = "done"
  /\ rebooted' = "no"
  /\ init_ret' = NoInit
  /\ persisted' = NoBlob
  /\ IF wifi_started = "sta"
     THEN sta_link' = "up" /\ s_wifi_event_group' = {"WIFI_CONNECTED_BIT"}
     ELSE UNCHANGED <<sta_link, s_wifi_event_group>>
  /\ UNCHANGED <<atl_config, nvs_blob, ideal_config, mqttvars, otavars, http_pc,
                 http_req, wifi_config, mqtt_client_config, http_hist, apivars,
                 wifi_started, ota_config, sta_max_conn_retry, sta_attempts>>

(***************************************************************************)
(* HTTP task: conf_fw_update_post_handler.                                 *)
(***************************************************************************)
\* the strtok loop of conf_fw_update_post_handler, applied to its ota_config
ApplyFwUpdatePost(o, req) ==
  IF "ota_behaviour" \in req.keys
     /\ req.ota_behaviour \in {ATL_OTA_BEHAVIOUR_DISABLED, ATL_OTA_BEHAVIOUR_VERIFY_NOTIFY,
                               ATL_OTA_BEHAVIOU_DOWNLOAD, ATL_OTA_BEHAVIOU_DOWNLOAD_REBOOT}
  THEN [o EXCEPT !.behaviour = req.ota_behaviour] ELSE o

\* body received, memset of ota_config, the strtok loop, xSemaphoreTake
FwPostTake(req) ==
  /\ Serving /\ http_pc = "idle" /\ atl_config_mutex = "free"
  /\ req \in FwUpdateRequests
  /\ http_req' = req
  /\ ota_config' = ApplyFwUpdatePost(ZeroOta, req)
  /\ http_hist' = NoHist
  /\ atl_config_mutex' = "http"
  /\ http_pc' = "fw_copy"
  /\ UNCHANGED <<atl_config, nvs_blob, ideal_config, wifi_config, mqtt_client_config,
                 mqttvars, otavars, rebooted, apivars, bootvars, wifivars>>

\* memcpy(&ota_config, &atl_config.ota, sizeof(atl_config_ota_t)); xSemaphoreGive
FwPostCopy ==
  /\ Serving /\ http_pc = "fw_copy" /\ atl_config_mutex = "http"
  /\ ota_config' = atl_config.ota
  /\ atl_config_mutex' = "free"
  /\ http_pc' = "commit"
  /\ UNCHANGED <<atl_config, nvs_blob, ideal_config, http_req, wifi_config,
                 mqtt_client_config, http_hist, mqttvars, otavars, rebooted, apivars,
                 bootvars, wifivars>>

(***************************************************************************)
(* Event loop task: atl_wifi_event_handler in station mode, and app_main   *)
(* waiting in atl_wifi_init_sta.  conn_retry is a local of the handler,    *)
(* set to 0 when the handler is entered.                                   *)
(***************************************************************************)
StaHandler == Running /\ wifi_started = "sta"

\* WIFI_EVENT_STA_START: esp_wifi_connect()
WifiStaStart ==
  /\ StaHandler /\ sta_link = "started"
  /\ sta_link' = "connecting"
  /\ UNCHANGED <<cfgvars, mqttvars, otavars, rebooted, http_pc, http_req, wifi_config,
                 mqtt_client_config, http_hist, apivars, bootvars, ota_config,
                 sta_max_conn_retry, s_wifi_event_group, sta_attempts>>

\* the branch of WIFI_EVENT_STA_DISCONNECTED, entered with conn_retry
RetryOrFail(conn_retry, limit) == IF conn_retry < limit THEN "retry" ELSE "fail"

\* WIFI_EVENT_STA_DISCONNECTED: the connection attempt failed or the link
\* was lost
WifiStaDisconnected ==
  /\ StaHandler /\ sta_link \in {"connecting", "up"}
  /\ LET conn_retry == 0
     IN IF RetryOrFail(conn_retry, sta_max_conn_retry) = "retry"
        THEN /\ sta_attempts < MaxAttempts
             /\ sta_link' = "connecting"
             /\ sta_attempts' = sta_attempts + 1
             /\ UNCHANGED s_wifi_event_group
        ELSE /\ s_wifi_event_group' = s_wifi_event_group \cup {"WIFI_FAIL_BIT"}
             /\ sta_link' = "down"
             /\ UNCHANGED sta_attempts
  /\ UNCHANGED <<cfgvars, mqttvars, otavars, rebooted, http_pc, http_req, wifi_config,
                 mqtt_client_config, http_hist, apivars, bootvars, ota_config,
                 sta_max_conn_retry>>

\* IP_EVENT_STA_GOT_IP: the station is connected
WifiGotIp ==
  /\ StaHandler /\ sta_link = "connecting"
  /\ s_wifi_event_group' = s_wifi_event_group \cup {"WIFI_CONNECTED_BIT"}
  /\ sta_link' = "up"
  /\ sta_attempts' = 0
  /\ UNCHANGED <<cfgvars, mqttvars, otavars, rebooted, http_pc, http_req, wifi_config,
                 mqtt_client_config, http_hist, apivars, bootvars, ota_config,
                 sta_max_conn_retry>>

\* xEventGroupWaitBits returns in atl_wifi_init_sta; atl_webserver_init
AppWifiWait ==
  /\ Running /\ boot_pc = "wifi_wait"
  /\ s_wifi_event_group /= {}
  /\ boot_pc' = "done"
  /\ UNCHANGED <<cfgvars, mqttvars, otavars, rebooted, http_pc, http_req, wifi_config,
                 mqtt_client_config, http_hist, apivars, wifi_started, init_ret,
                 persisted, extvars>>

\* records of a device configured as a station
StaConfigs ==
  {MkConfig(b, ATL_WIFI_STA_MODE, "lab", ATL_MQTT_DISABLED) :
      b \in {ATL_OTA_BEHAVIOUR_DISABLED, ATL_OTA_BEHAVIOU_DOWNLOAD_REBOOT}}

\* app_main is in atl_wifi_init_sta, after esp_wifi_start()
InitSta ==
  /\ atl_config \in StaConfigs
  /\ wifi_started = "sta"
  /\ boot_pc = "wifi_wait"
  /\ sta_link = "started"
  /\ sta_max_conn_retry \in 0..MaxRetry
  /\ boot_partition = RunningPartition
  /\ InitRam

(***************************************************************************)
(* The station: the WiFi event handler, then the web server with the       *)
(* firmware-update form and the configuration API.                         *)
(***************************************************************************)
NextSta ==
  \/ WifiStaStart
  \/ WifiStaDisconnected
  \/ WifiGotIp
  \/ AppWifiWait
  \/ \E req \in FwUpdateRequests : FwPostTake(req)
  \/ FwPostCopy
  \/ HttpCommit
  \/ HttpRestart
  \/ ApiTake
  \/ ApiCopy
  \/ ApiSend

SpecSta == InitSta /\ [][NextSta]_vars

(***************************************************************************)
(* The firmware update coordinator: the MQTT task alone, every event.      *)
(***************************************************************************)
NextOta ==
  \/ MqttTake
  \/ MqttCopyOut
  \/ MqttConnected
  \/ MqttOtherEvent
  \/ \E ev \in DroppedEvents(request_id) : MqttDataDropped(ev)
  \/ \E ev \in OtaAttrEvents : MqttAttributes(ev)
  \/ MqttTake2
  \/ MqttCopyIn
  \/ MqttCommit
  \/ \E ev \in ResponseEvents : MqttAttrResponse(ev)
  \/ \E ev \in ChunkEvents : MqttFwChunk(ev)

SpecOta == Init /\ [][NextOta]_vars

\* the coordinator on a device whose boot loader fell back to the old image
SpecFallback == InitFallback /\ [][NextOta]_vars

(***************************************************************************)
(* The configuration store: the HTTP task against the MQTT task handling   *)
(* connection events and attribute updates.                                *)
(***************************************************************************)
NextConfig ==
  \/ MqttTake
  \/ MqttCopyOut
  \/ MqttConnected
  \/ MqttOtherEvent
  \/ \E ev \in DroppedEvents(request_id) : MqttDataDropped(ev)
  \/ \E ev \in AttrEvents : MqttAttributes(ev)
  \/ MqttTake2
  \/ MqttCopyIn
  \/ MqttCommit
  \/ \E req \in HttpRequests : HttpTake(req)
  \/ HttpCopyOut
  \/ HttpTake2
  \/ HttpCopyIn
  \/ HttpCopyIn2
  \/ HttpCommit
  \/ HttpRestart
  \/ ApiTake
  \/ ApiCopy
  \/ ApiSend
  \/ AppStorageInit
  \/ AppConfigInit
  \/ AppWifiTake
  \/ AppWifiCopy

SpecConfig == Init /\ [][NextConfig]_vars

(***************************************************************************)
(* The else branch of the handlers' xSemaphoreTake: the mutex is held by   *)
(* another context and the call returns without it.  The handler logs and  *)
(* goes on.                                                                *)
(***************************************************************************)
\* handler entry: memset of the local copy, xSemaphoreTake fails
MqttTakeFail ==
  /\ Running /\ mqtt_pc = "idle" /\ atl_config_mutex \notin {"free", "null"}
  /\ mqtt_event' = NoEvent
  /\ alt_config_local' = ZeroConfig
  /\ effects' = <<Eff("xSemaphoreTake", "fail", 0, 0)>>
  /\ mqtt_pc' = "dispatch"
  /\ UNCHANGED <<cfgvars, subscribed, httpvars, rebooted,
                 msg_id, request_id, chunk_count, chunk_current, update_partition,
                 update_handle, ota_entries, ota_last_handle, ota_written,
                 boot_partition, sess>>

\* xSemaphoreTake before the write-back fails: no memcpy, the commit follows
MqttTake2Fail ==
  /\ Running /\ mqtt_pc = "take2" /\ atl_config_mutex \notin {"free", "null"}
  /\ mqtt_pc' = "commit"
  /\ UNCHANGED <<cfgvars, mqtt_event, alt_config_local, subscribed, otavars,
                 httpvars, rebooted>>

\* body received, memset of the local section, xSemaphoreTake fails; strtok
\* loop on the zero-filled section
HttpTakeFail(req) ==
  /\ Serving /\ http_pc = "idle" /\ atl_config_mutex \notin {"free", "null"}
  /\ req \in HttpRequests
  /\ http_req' = req
  /\ wifi_config' = IF req.handler = "conf_wifi_post"
                    THEN ApplyWifiPost(ZeroWifi, req) ELSE ZeroWifi
  /\ mqtt_client_config' = IF req.handler = "conf_mqtt_post"
                           THEN ApplyMqttPost(ZeroMqttClient, req) ELSE ZeroMqttClient
  /\ http_hist' = [NoHist EXCEPT !.copy_out = "fail"]
  /\ http_pc' = "take2"
  /\ UNCHANGED <<cfgvars, mqttvars, otavars, rebooted, apivars, bootvars, extvars>>

\* xSemaphoreTake before the write-back fails: no memcpy, the commit follows
HttpTake2Fail ==
  /\ Serving /\ http_pc = "take2" /\ atl_config_mutex \notin {"free", "null"}
  /\ http_pc' = "commit"
  /\ UNCHANGED <<cfgvars, http_req, wifi_config, mqtt_client_config, http_hist,
                 mqttvars, otavars, rebooted, apivars, bootvars, extvars>>

\* the two writers of the record, each of their takes able to fail
NextLock ==
  \/ MqttTake
  \/ MqttCopyOut
  \/ MqttConnected
  \/ \E ev \in OtaAttrEvents : MqttAttributes(ev)
  \/ MqttTake2
  \/ MqttCopyIn
  \/ MqttCommit
  \/ \E req \in HttpRequests : HttpTake(req)
  \/ HttpCopyOut
  \/ HttpTake2
  \/ HttpCopyIn
  \/ HttpCopyIn2
  \/ HttpCommit
  \/ HttpRestart
  \/ MqttTakeFail
  \/ MqttTake2Fail
  \/ \E req \in HttpRequests : HttpTakeFail(req)
  \/ HttpTake2Fail

SpecLock == Init /\ [][NextLock]_vars

(***************************************************************************)
(* The users of the mutex under a fair scheduler: a task that holds the    *)
(* mutex runs on to its xSemaphoreGive, and a task blocked in              *)
(* xSemaphoreTake is woken when the mutex is given often enough.           *)
(***************************************************************************)
NextLive ==
  \/ MqttTake
  \/ MqttCopyOut
  \/ MqttConnected
  \/ \E ev \in OtaAttrEvents : MqttAttributes(ev)
  \/ MqttTake2
  \/ MqttCopyIn
  \/ MqttCommit
  \/ \E req \in HttpRequests : HttpTake(req)
  \/ HttpCopyOut
  \/ HttpTake2
  \/ HttpCopyIn
  \/ HttpCopyIn2
  \/ HttpCommit
  \/ HttpRestart
  \/ ApiTake
  \/ ApiCopy
  \/ ApiSend

Fairness ==
  /\ WF_vars(MqttCopyOut) /\ WF_vars(MqttCopyIn)
  /\ WF_vars(HttpCopyOut) /\ WF_vars(HttpCopyIn) /\ WF_vars(HttpCopyIn2)
  /\ WF_vars(ApiCopy)
  /\ SF_vars(MqttTake2) /\ SF_vars(HttpTake2)

SpecLive == Init /\ [][NextLive]_vars /\ Fairness

(***************************************************************************)
(* Reading the history.                                                    *)
(***************************************************************************)
HasEff(e, op, arg) == \E i \in 1..Len(e) : e[i].op = op /\ e[i].arg = arg
HasOp(e, op) == \E i \in 1..Len(e) : e[i].op = op
\* the step in which the handler runs its switch statement and returns
HandlerStep == mqtt_pc = "dispatch" /\ mqtt_pc' = "idle"

(***************************************************************************)
(* C1: no lost update.  With every update applied atomically at its        *)
(* write-back, the record would be ideal_config; the claim is that the     *)
(* record always equals it, whatever the interleaving of the writers.      *)
(***************************************************************************)
C1_NoLostUpdate == atl_config = ideal_config

(***************************************************************************)
(* C2: the handler reaches esp_restart only if, in the current update      *)
(* session, esp_ota_begin succeeded, every esp_ota_write succeeded,        *)
(* esp_ota_end succeeded and esp_ota_set_boot_partition succeeded.         *)
(***************************************************************************)
C2_RebootOnlyOnSuccessPath ==
  rebooted = "ota" =>
     /\ sess.begin = "ok"
     /\ sess.write = "ok"
     /\ sess.end = "ok"
     /\ sess.boot = "ok"

(***************************************************************************)
(* C3: UPDATING is published, esp_ota_set_boot_partition is called and the *)
(* device restarts only if ota.behaviour is DownloadAndReboot.             *)
(***************************************************************************)
C3_ActivationGatedByPolicy ==
  (\/ HasEff(effects, "publish", "UPDATING")
   \/ HasOp(effects, "esp_ota_set_boot_partition")
   \/ HasOp(effects, "esp_restart"))
     => atl_config.ota.behaviour = ATL_OTA_BEHAVIOU_DOWNLOAD_REBOOT

(***************************************************************************)
(* C4: a failure of esp_ota_begin or esp_ota_write ends the session: the   *)
(* handling of that chunk publishes FAILED, leaves chunk_current alone and *)
(* publishes no chunk request, and no later chunk of the session brings a  *)
(* chunk request.                                                          *)
(***************************************************************************)
C4_StorageErrorEndsSession ==
  [][(HandlerStep /\ IsFwChunkTopic(mqtt_event'.topic)) =>
       /\ (HasEff(effects', "esp_ota_begin", "fail")
             \/ HasEff(effects', "esp_ota_write", "fail"))
            => /\ HasEff(effects', "publish", "FAILED")
               /\ chunk_current' = chunk_current
               /\ ~HasEff(effects', "publish", "chunk_request")
       /\ (sess.begin = "fail" \/ sess.write = "fail")
            => ~HasEff(effects', "publish", "chunk_request")]_vars

(***************************************************************************)
(* C5: every failure of the verifying step (esp_ota_end,                   *)
(* esp_ota_get_partition_description, esp_partition_get_sha256) is         *)
(* followed by the publication of FAILED, and by no VERIFIED or UPDATING.  *)
(***************************************************************************)
VerifyOps ==
  {"esp_ota_end", "esp_ota_get_partition_description", "esp_partition_get_sha256"}

C5_VerifyFailurePublishesFailed ==
  \A i \in 1..Len(effects) :
     (effects[i].op \in VerifyOps /\ effects[i].arg = "fail") =>
        /\ \E j \in (i + 1)..Len(effects) :
              effects[j].op = "publish" /\ effects[j].arg = "FAILED"
        /\ \A j \in (i + 1)..Len(effects) :
              ~(effects[j].op = "publish" /\ effects[j].arg \in {"VERIFIED", "UPDATING"})

(***************************************************************************)
(* C6: when esp_ota_end fails, the handling of that chunk neither calls    *)
(* esp_ota_set_boot_partition nor restarts and leaves ota.behaviour as it  *)
(* was, and for the rest of the session the boot partition is not set and  *)
(* the device is not restarted.                                            *)
(***************************************************************************)
C6_EndFailureStep ==
  (HandlerStep /\ HasEff(effects', "esp_ota_end", "fail")) =>
     /\ ~HasOp(effects', "esp_ota_set_boot_partition")
     /\ ~HasOp(effects', "esp_restart")
     /\ boot_partition' = boot_partition
     /\ rebooted' = "no"
     /\ atl_config'.ota.behaviour = atl_config.ota.behaviour

C6_NoActivationAfterEndFailure ==
  /\ [][C6_EndFailureStep]_vars
  /\ [](sess.end = "fail" => (sess.boot = "none" /\ rebooted /= "ota"))

\* esp_ota_end has failed on an image that was begun and written
C6_Witness ==
  /\ mqtt_pc = "idle"
  /\ HasEff(effects, "esp_ota_end", "fail")
  /\ HasEff(effects, "publish", "FAILED")
  /\ sess.begin = "ok" /\ sess.write = "ok" /\ sess.end = "fail"

(***************************************************************************)
(* C7: a message on v1/devices/me/attributes/response/<j> is processed as  *)
(* the firmware-information response only if <j> is the decimal text of    *)
(* request_id; a proper prefix of that text is not enough.                 *)
(***************************************************************************)
C7_InfoResponseNeedsExactId ==
  [][(HandlerStep /\ IsAttrResponseTopic(mqtt_event'.topic) /\ effects' /= <<>>)
        => mqtt_event'.topic = AttrResponseTopic(Dec(request_id))]_vars

(***************************************************************************)
(* C8: a chunk response whose id is not request_id changes nothing:        *)
(* request_id, chunk_current, chunk_count, update_partition and            *)
(* update_handle are unchanged, nothing is written and nothing published.  *)
(***************************************************************************)
C8_ForeignChunkStep ==
  \A s \in IdTexts, t \in IdxTexts :
     (HandlerStep /\ mqtt_event'.topic = FwChunkTopic(s, t) /\ s /= Dec(request_id))
        => /\ UNCHANGED <<request_id, chunk_current, chunk_count, update_partition,
                          update_handle, msg_id>>
           /\ UNCHANGED <<ota_written, ota_entries, ota_last_handle, boot_partition>>
           /\ effects' = <<>>

C8_ForeignChunkIsNoOp == [][C8_ForeignChunkStep]_vars

\* a chunk response with a foreign id has been handled during a download
C8_Witness ==
  /\ mqtt_pc = "idle"
  /\ \E s \in IdTexts, t \in IdxTexts :
        mqtt_event.topic = FwChunkTopic(s, t) /\ s /= Dec(request_id)
  /\ chunk_current < chunk_count
  /\ request_id /= 0
  /\ effects = <<>>

(***************************************************************************)
(* C9: during a download, a message on                                     *)
(* v2/fw/response/<request_id>/chunk/<chunk_current> is accepted: its      *)
(* payload is written and chunk_current advances by one.                   *)
(***************************************************************************)
C9_RequestedChunkIsAccepted ==
  [][(/\ HandlerStep
      /\ chunk_current < chunk_count
      /\ mqtt_event'.topic = FwChunkTopic(Dec(request_id), Dec(chunk_current)))
        => /\ HasOp(effects', "esp_ota_write")
           /\ chunk_current' = chunk_current + 1]_vars

(***************************************************************************)
(* C10: once a response has been processed, a second delivery of the same  *)
(* message is stale: its topic no longer passes the correlation check.     *)
(***************************************************************************)
C10_DuplicateIsStale ==
  (mqtt_pc = "idle" /\ mqtt_event.event_id = "MQTT_EVENT_DATA" /\ effects /= <<>>)
     => /\ IsAttrResponseTopic(mqtt_event.topic)
             => ~AcceptInfoResponse(mqtt_event.topic, request_id)
        /\ IsFwChunkTopic(mqtt_event.topic)
             => ~AcceptChunkResponse(mqtt_event.topic, request_id)

(***************************************************************************)
(* Reading the session history.                                            *)
(***************************************************************************)
\* positions of the chunk requests among the calls of an invocation
ChunkRequestsOf(e) ==
  {i \in 1..Len(e) : e[i].op = "publish" /\ e[i].arg = "chunk_request"}
\* the invocation published a request
PublishedRequest(e) ==
  HasEff(e, "publish", "info_request") \/ HasEff(e, "publish", "chunk_request")
\* the download of the session went through: begun, written and closed
FullySuccessful ==
  sess.begin = "ok" /\ sess.write = "ok" /\ sess.end = "ok"

C12_RequestStep ==
  HandlerStep =>
     /\ Cardinality(ChunkRequestsOf(effects')) <= 1
     /\ sess'.reqs /= sess.reqs =>
          \/ /\ IsAttrResponseTopic(mqtt_event'.topic)
             /\ chunk_current' = chunk_current
             /\ sess'.reqs = <<chunk_current>>
          \/ /\ IsFwChunkTopic(mqtt_event'.topic)
             /\ AcceptChunkResponse(mqtt_event'.topic, request_id)
             /\ HasOp(effects', "esp_ota_write")
             /\ chunk_current' = chunk_current + 1
             /\ sess'.reqs = Append(sess.reqs, chunk_current')

C12_Consecutive ==
  \A i \in 1..(Len(sess.reqs) - 1) : sess.reqs[i + 1] = sess.reqs[i] + 1

C12_StrictlySequential ==
  /\ [][C12_RequestStep]_vars
  /\ []C12_Consecutive

\* three chunks have been requested in a session in which a write failed
C12_Witness ==
  /\ mqtt_pc = "idle"
  /\ Len(sess.reqs) = 3
  /\ sess.write = "fail"

(***************************************************************************)
(* C13: every session starts at chunk 0: the invocation that publishes     *)
(* DOWNLOADING requests chunk 0, and the invocation that accepts the first *)
(* chunk response of a session calls esp_ota_begin.                        *)
(***************************************************************************)
C13_SessionStartsAtChunkZero ==
  [][HandlerStep =>
       /\ HasEff(effects', "publish", "DOWNLOADING")
            => \A i \in ChunkRequestsOf(effects') : effects'[i].idx = 0
       /\ (Len(sess.reqs) = 1 /\ HasOp(effects', "esp_ota_write"))
            => HasOp(effects', "esp_ota_begin")]_vars

(***************************************************************************)
(* C14: once an info response has reported the running title and version,  *)
(* and until a new info request is published, no invocation publishes      *)
(* DOWNLOADING or a chunk request or calls esp_ota_begin.                  *)
(***************************************************************************)
C14_CurrentOpensNothing ==
  [][(/\ HandlerStep
      /\ sess.current \/ sess'.current
      /\ ~HasEff(effects', "publish", "info_request"))
        => /\ ~HasEff(effects', "publish", "DOWNLOADING")
           /\ ~HasEff(effects', "publish", "chunk_request")
           /\ ~HasOp(effects', "esp_ota_begin")]_vars

(***************************************************************************)
(* C15: an accepted info response with a matching title, a different       *)
(* version and fw_size = 0 publishes neither DOWNLOADING nor a chunk       *)
(* request and leaves request_id, chunk_current and chunk_count unchanged. *)
(***************************************************************************)
C15_ZeroSizeIsRejected ==
  [][(/\ HandlerStep
      /\ IsAttrResponseTopic(mqtt_event'.topic)
      /\ AcceptInfoResponse(mqtt_event'.topic, request_id)
      /\ mqtt_event'.data.kind = "info"
      /\ mqtt_event'.data.fw_title = RunningTitle
      /\ mqtt_event'.data.fw_version /= RunningVersion
      /\ mqtt_event'.data.fw_size = 0)
        => /\ ~HasEff(effects', "publish", "DOWNLOADING")
           /\ ~HasEff(effects', "publish", "chunk_request")
           /\ UNCHANGED <<request_id, chunk_current, chunk_count>>]_vars

(***************************************************************************)
(* C16: for a firmware of size S > 0 the download is started with          *)
(* chunk_count the ceiling of S / 4096: the least n with n * 4096 >= S.    *)
(***************************************************************************)
IsCeiling(n, size) ==
  /\ n * 4096 >= size
  /\ (n - 1) * 4096 < size

C16_ChunkCountIsCeiling ==
  [][(/\ HandlerStep
      /\ HasEff(effects', "publish", "DOWNLOADING")
      /\ mqtt_event'.data.fw_size > 0)
        => IsCeiling(chunk_count', mqtt_event'.data.fw_size)]_vars

\* a firmware of 10000 bytes has been announced: three chunks
C16_Witness ==
  /\ mqtt_pc = "idle"
  /\ HasEff(effects, "publish", "DOWNLOADING")
  /\ mqtt_event.data.fw_size = 10000
  /\ chunk_count = 3

(***************************************************************************)
(* C17: on MQTT_EVENT_CONNECTED in AgroTechLab cloud mode an info request  *)
(* is published if and only if ota.behaviour of the shared record is not   *)
(* Disabled; the request carries an id other than the one outstanding      *)
(* before, and when the policy is Disabled request_id is left unchanged.   *)
(***************************************************************************)
C17_InfoRequestOnConnect ==
  [][(/\ HandlerStep
      /\ mqtt_event'.event_id = "MQTT_EVENT_CONNECTED"
      /\ atl_config.mqtt_client.mode = ATL_MQTT_AGROTECHLAB_CLOUD)
        => /\ HasEff(effects', "publish", "info_request")
                <=> atl_config.ota.behaviour /= ATL_OTA_BEHAVIOUR_DISABLED
           /\ atl_config.ota.behaviour = ATL_OTA_BEHAVIOUR_DISABLED
                => request_id' = request_id
           /\ (atl_config.ota.behaviour /= ATL_OTA_BEHAVIOUR_DISABLED
                 /\ sess.purpose /= "none")
                => request_id' /= request_id]_vars

(***************************************************************************)
(* C18: correlation is per purpose: an info response carrying the id       *)
(* registered for a chunk request is discarded, and a chunk response       *)
(* carrying the id registered for an info request is discarded.            *)
(***************************************************************************)
C18_CorrelationPerPurpose ==
  [][HandlerStep =>
       /\ (/\ sess.purpose = "chunk"
           /\ mqtt_event'.topic = AttrResponseTopic(Dec(request_id)))
            => effects' = <<>> /\ UNCHANGED <<request_id, chunk_count, chunk_current>>
       /\ (/\ sess.purpose = "info"
           /\ \E t \in IdxTexts : mqtt_event'.topic = FwChunkTopic(Dec(request_id), t))
            => effects' = <<>> /\ UNCHANGED <<request_id, chunk_count, chunk_current>>]_vars

(***************************************************************************)
(* C19: while no request has been published since boot, every attribute    *)
(* response and every chunk response is discarded: nothing is published,   *)
(* no download is started and no partition is opened.                      *)
(***************************************************************************)
C19_NothingRegisteredAllStale ==
  [][(/\ HandlerStep
      /\ sess.purpose = "none"
      /\ IsAttrResponseTopic(mqtt_event'.topic) \/ IsFwChunkTopic(mqtt_event'.topic))
        => /\ effects' = <<>>
           /\ UNCHANGED <<request_id, chunk_count, chunk_current, update_handle,
                          ota_entries>>]_vars

(***************************************************************************)
(* C20: request ids increase: an invocation that publishes a request       *)
(* leaves request_id strictly greater than the id issued before it.        *)
(***************************************************************************)
C20_RequestIdsIncrease ==
  [][(/\ HandlerStep
      /\ sess.purpose /= "none"
      /\ PublishedRequest(effects'))
        => request_id' > request_id]_vars

(***************************************************************************)
(* C30: an invocation in which esp_ota_set_boot_partition fails publishes  *)
(* FAILED afterwards and does not call esp_restart; one in which it        *)
(* succeeds calls esp_restart afterwards.                                  *)
(***************************************************************************)
C30_SetBootFailureNoRestart ==
  \A i \in 1..Len(effects) :
     effects[i].op = "esp_ota_set_boot_partition" =>
        IF effects[i].arg = "fail"
        THEN /\ \E j \in (i + 1)..Len(effects) :
                   effects[j].op = "publish" /\ effects[j].arg = "FAILED"
             /\ ~HasOp(effects, "esp_restart")
             /\ rebooted = "no"
        ELSE /\ \E j \in (i + 1)..Len(effects) : effects[j].op = "esp_restart"
             /\ rebooted = "ota"

\* the boot partition could not be set for an image that was verified
C30_Witness ==
  /\ mqtt_pc = "idle"
  /\ HasEff(effects, "esp_partition_get_sha256", "ok")
  /\ HasEff(effects, "esp_ota_set_boot_partition", "fail")
  /\ HasEff(effects, "publish", "FAILED")
  /\ rebooted = "no"

(***************************************************************************)
(* C29: a message that is a protocol error is dropped: the awaited info    *)
(* response with an empty or unparsable payload, and any data event with   *)
(* a null topic or without data, leave request_id, chunk_current,          *)
(* chunk_count and the partition handle as they were and publish nothing.  *)
(***************************************************************************)
C29_ProtocolError ==
  /\ mqtt_event'.event_id = "MQTT_EVENT_DATA"
  /\ \/ mqtt_event'.topic = NullTopic
     \/ mqtt_event'.data.kind = "none"
     \/ /\ IsAttrResponseTopic(mqtt_event'.topic)
        /\ AcceptInfoResponse(mqtt_event'.topic, request_id)
        /\ mqtt_event'.data.kind \in {"empty", "invalid"}

C29_ProtocolErrorDropsMessage ==
  [][(HandlerStep /\ C29_ProtocolError)
        => /\ effects' = <<>>
           /\ UNCHANGED <<request_id, chunk_current, chunk_count, update_handle,
                          msg_id, sess, ota_entries, rebooted>>]_vars

\* the awaited response arrived with a payload that is empty or does not
\* parse, in the middle of nothing else: a request is outstanding
C29_Witness ==
  /\ mqtt_pc = "idle"
  /\ sess.purpose = "info"
  /\ mqtt_event.topic = AttrResponseTopic(Dec(request_id))
  /\ mqtt_event.data.kind \in {"empty", "invalid"}
  /\ effects = <<>>

\* a data event without data arrived on the topic of the awaited chunk
C29_WitnessEmptyData ==
  /\ mqtt_pc = "idle"
  /\ sess.purpose = "chunk"
  /\ mqtt_event.topic = FwChunkTopic(Dec(request_id), Dec(0))
  /\ mqtt_event.data.kind = "none"

(***************************************************************************)
(* C28: an attribute update is validated field by field: the handling of   *)
(* a message on v1/devices/me/attributes gives every recognised key whose  *)
(* value is one of the field's values to the copy that is written back,    *)
(* and leaves every other field of the copy as it was.                     *)
(***************************************************************************)
C28_FieldByField(c, d) ==
  [ota |-> [behaviour |->
              IF "ota.behaviour" \in d.keys
                 /\ d.ota_behaviour \in ATL_OTA_BEHAVIOUR_DISABLED..ATL_OTA_BEHAVIOU_DOWNLOAD_REBOOT
              THEN d.ota_behaviour ELSE c.ota.behaviour],
   wifi |-> [mode |->
               IF "wifi.startup_mode" \in d.keys
                  /\ d.wifi_mode \in ATL_WIFI_DISABLED..ATL_WIFI_STA_MODE
               THEN d.wifi_mode ELSE c.wifi.mode,
             sta_ssid |->
               IF "wifi.sta_ssid" \in d.keys THEN d.sta_ssid ELSE c.wifi.sta_ssid],
   mqtt_client |-> [mode |->
               IF "mqtt_client.mode" \in d.keys
                  /\ d.mqtt_mode \in ATL_MQTT_DISABLED..ATL_MQTT_THIRD
               THEN d.mqtt_mode ELSE c.mqtt_client.mode]]

C28_AttributesValidatedPerField ==
  [][(/\ mqtt_pc = "dispatch" /\ mqtt_pc' = "take2"
      /\ IsAttributesTopic(mqtt_event'.topic)
      /\ mqtt_event'.data.kind = "attrs")
        => alt_config_local' = C28_FieldByField(alt_config_local, mqtt_event'.data)]_vars

(***************************************************************************)
(* C25: a POST handler that changed the configuration calls esp_restart    *)
(* only after atl_config_commit_nvs was called and returned success.       *)
(***************************************************************************)
C25_RebootOnlyAfterCommit ==
  [][(http_pc = "restart" /\ rebooted' = "http") => http_hist.commit = "ok"]_vars

(***************************************************************************)
(* C26: a committed configuration survives a reboot: when the blob held a  *)
(* record at the restart and atl_config_init returned ESP_OK, atl_config   *)
(* is that record, and not the compiled-in defaults.                       *)
(***************************************************************************)
C26_CommittedSurvivesReboot ==
  (/\ boot_pc \in {"wifi", "wifi_copy"}
   /\ persisted /= NoBlob
   /\ init_ret.ret = "ESP_OK")
     => atl_config = persisted

(***************************************************************************)
(* C27: when atl_config_init finds no key "atl_config" it returns ESP_OK   *)
(* exactly if nvs_set_blob and nvs_commit succeeded, and then atl_config   *)
(* is the default record and the blob equals it; a load that fails for     *)
(* another reason returns an error and a load that succeeds returns ESP_OK.*)
(***************************************************************************)
C27_AbsentBlobIsNotAnError ==
  boot_pc = "wifi" =>
     /\ init_ret.get = "not_found" =>
           /\ init_ret.ret = "ESP_OK" <=> (init_ret.set = "ok" /\ init_ret.commit = "ok")
           /\ atl_config = DefaultConfig
           /\ init_ret.ret = "ESP_OK" => nvs_blob = atl_config
     /\ init_ret.get = "error" => init_ret.ret /= "ESP_OK"
     /\ init_ret.get = "ok" => init_ret.ret = "ESP_OK" /\ atl_config = nvs_blob

\* the key was absent, the defaults were created and written back
C27_Witness ==
  /\ boot_pc = "wifi"
  /\ persisted /= NoBlob
  /\ init_ret.get = "not_found"
  /\ init_ret.ret = "ESP_OK"
  /\ atl_config = DefaultConfig
  /\ nvs_blob = DefaultConfig

(***************************************************************************)
(* C21: every read and every write of atl_config is made by a context      *)
(* that holds atl_config_mutex: the MQTT handler, the HTTP handlers, and   *)
(* app_main once the mutex exists.                                         *)
(***************************************************************************)
C21_AccessStep(ctx) ==
  CASE ctx = "mqtt" -> Running /\ mqtt_pc \in {"copy_out", "copy_in"} /\ mqtt_pc' /= mqtt_pc
    [] ctx = "http" -> /\ Running /\ http_pc' /= http_pc
                       /\ http_pc \in {"copy_out", "copy_in", "copy_in2"}
    [] ctx = "api"  -> Running /\ api_pc = "copy" /\ api_pc' /= api_pc
    [] ctx = "app"  -> boot_pc \in {"wifi", "wifi_copy"} /\ boot_pc' /= boot_pc

C21_EveryAccessHoldsMutex ==
  [][/\ \A ctx \in {"mqtt", "http", "api", "app"} :
           C21_AccessStep(ctx) => atl_config_mutex = ctx
     /\ (Running /\ atl_config' /= atl_config) => atl_config_mutex \in {"mqtt", "http"}]_vars

(***************************************************************************)
(* C22: a local copy taken under the mutex is never half-written: when a   *)
(* handler copies the record (or a section) out, no writer is between the  *)
(* first and the last byte of its write-back, and the copy equals the      *)
(* record as the last completed write-back left it.                        *)
(***************************************************************************)
\* a writer has stored part of its section and not yet the rest
C22_HalfWritten == http_pc = "copy_in2"

C22_SnapshotsNeverHalfWritten ==
  [][/\ (Running /\ mqtt_pc = "copy_out" /\ mqtt_pc' = "dispatch")
           => ~C22_HalfWritten /\ alt_config_local' = atl_config
     /\ (Running /\ api_pc = "copy" /\ api_pc' = "send")
           => ~C22_HalfWritten /\ atl_config_local' = atl_config
     /\ (Running /\ http_pc = "copy_out" /\ http_pc' = "take2")
           => /\ ~C22_HalfWritten
              /\ http_req.handler = "conf_wifi_post"
                    => wifi_config' = ApplyWifiPost(atl_config.wifi, http_req)
              /\ http_req.handler = "conf_mqtt_post"
                    => mqtt_client_config' = ApplyMqttPost(atl_config.mqtt_client, http_req)]_vars

\* the reader of the whole record has copied it after the two-step write of
\* the wifi section completed
C22_Witness ==
  /\ api_pc = "send"
  /\ http_pc \in {"commit", "restart"}
  /\ http_req.handler = "conf_wifi_post"
  /\ atl_config_local.wifi = [mode |-> ATL_WIFI_STA_MODE, sta_ssid |-> "lab"]

(***************************************************************************)
(* C24: no I/O in a critical section: every step a context takes while it  *)
(* holds atl_config_mutex is one of its copy steps, and it publishes       *)
(* nothing, writes neither the NVS blob nor a partition, sends no HTTP     *)
(* response and does not restart the device.                               *)
(***************************************************************************)
C24_HolderStep(ctx) ==
  /\ atl_config_mutex = ctx
  /\ CASE ctx = "mqtt" -> Running /\ mqtt_pc' /= mqtt_pc
       [] ctx = "http" -> Running /\ http_pc' /= http_pc
       [] ctx = "api"  -> Running /\ api_pc' /= api_pc
       [] ctx = "app"  -> boot_pc' /= boot_pc

C24_CopyStep(ctx) ==
  CASE ctx = "mqtt" -> mqtt_pc \in {"copy_out", "copy_in"}
    [] ctx = "http" -> http_pc \in {"copy_out", "copy_in", "copy_in2"}
    [] ctx = "api"  -> api_pc = "copy"
    [] ctx = "app"  -> boot_pc = "wifi_copy"

C24_NoIoWhileLocked ==
  [][\A ctx \in {"mqtt", "http", "api", "app"} :
        C24_HolderStep(ctx) =>
           /\ C24_CopyStep(ctx)
           /\ UNCHANGED <<effects, nvs_blob, ota_written, boot_partition>>
           /\ ctx /= "app" => rebooted' = rebooted]_vars

\* the MQTT handler has written an attribute update back and committed it,
\* with the mutex given in between
C24_Witness ==
  /\ mqtt_pc = "idle"
  /\ atl_config_mutex = "free"
  /\ mqtt_event.data.keys = {"wifi.sta_ssid"}
  /\ atl_config.wifi.sta_ssid = "lab"
  /\ nvs_blob = atl_config

(***************************************************************************)
(* C23: a handler whose copy-out could not take the mutex leaves           *)
(* atl_config as it was: no step of that invocation changes the record,    *)
(* so its zero-filled local copy is never written back; and a failed take  *)
(* before the write-back changes nothing either.                           *)
(***************************************************************************)
C23_FailedLockLeavesConfig ==
  [][/\ (Running /\ mqtt_pc' /= mqtt_pc /\ HasEff(effects, "xSemaphoreTake", "fail"))
           => atl_config' = atl_config
     /\ (Running /\ http_pc' /= http_pc /\ http_pc /= "idle"
                 /\ http_hist.copy_out = "fail")
           => atl_config' = atl_config
     /\ (Running /\ mqtt_pc = "take2" /\ mqtt_pc' = "commit") => atl_config' = atl_config
     /\ (Running /\ http_pc = "take2" /\ http_pc' = "commit") => atl_config' = atl_config]_vars

(***************************************************************************)
(* C36: an accepted info response whose title is not the title of the      *)
(* running image is a no-op: the handling publishes nothing (no status,    *)
(* no chunk request) and leaves request_id, chunk_current and chunk_count  *)
(* as they were.                                                           *)
(***************************************************************************)
C36_ForeignTitle ==
  /\ mqtt_event'.event_id = "MQTT_EVENT_DATA"
  /\ IsAttrResponseTopic(mqtt_event'.topic)
  /\ AcceptInfoResponse(mqtt_event'.topic, request_id)
  /\ mqtt_event'.data.kind = "info"
  /\ mqtt_event'.data.fw_title /= RunningTitle

C36_ForeignTitleIsNoOp ==
  [][(HandlerStep /\ C36_ForeignTitle)
        => /\ effects' = <<>>
           /\ UNCHANGED <<request_id, chunk_current, chunk_count, msg_id>>]_vars

\* the awaited info response arrived, naming another product
C36_Witness ==
  /\ mqtt_pc = "idle"
  /\ sess.purpose = "info"
  /\ mqtt_event.event_id = "MQTT_EVENT_DATA"
  /\ mqtt_event.topic = AttrResponseTopic(Dec(request_id))
  /\ mqtt_event.data.kind = "info"
  /\ mqtt_event.data.fw_title /= RunningTitle
  /\ mqtt_event.data.fw_version /= RunningVersion
  /\ effects = <<>>

(***************************************************************************)
(* C34: while a download session is active (the last request published was *)
(* a chunk request) 0 <= chunk_current <= chunk_count: no sequence of      *)
(* inbound messages drives chunk_current above chunk_count.                *)
(***************************************************************************)
C34_SessionActive == sess.purpose = "chunk"

C35_OpenAt(e, i) ==
  /\ \/ \E j \in 1..(i - 1) : e[j].op = "esp_ota_begin" /\ e[j].arg = "ok"
     \/ /\ \A j \in 1..(i - 1) : e[j].op /= "esp_ota_begin"
        /\ sess.begin = "ok"
        /\ update_handle \in ota_entries
  /\ \A j \in 1..(i - 1) :
        ~(e[j].op = "esp_ota_write" /\ e[j].arg = "fail") /\ e[j].op /= "esp_ota_end"

C31_StatusAt(e, state) ==
  {i \in 1..Len(e) : e[i].op = "publish" /\ e[i].arg = state}

C31_StatusesAreOrdered ==
  /\ \A i \in C31_StatusAt(effects, "DOWNLOADING") :
        /\ \A j \in ChunkRequestsOf(effects) : i < j
        /\ sess.reqs = <<>> \/ ChunkRequestsOf(effects) /= {}
  /\ \A i \in C31_StatusAt(effects, "DOWNLOADED") :
        /\ sess.begin = "ok" /\ sess.write = "ok"
        /\ Len(ota_written) = chunk_count
        /\ \A j \in 1..(i - 1) : effects[j].op /= "esp_ota_end"
  /\ \A i \in C31_StatusAt(effects, "VERIFIED") :
        /\ sess.end = "ok" /\ sess.sha = "ok"
        /\ \E j \in C31_StatusAt(effects, "DOWNLOADED") : j < i
  /\ \A i \in C31_StatusAt(effects, "UPDATING") :
        \E j \in C31_StatusAt(effects, "VERIFIED") : j < i

(***************************************************************************)
(* C32: a configured boot partition that differs from the running          *)
(* partition, found when chunk 0 arrives, does not abort the session: the  *)
(* invocation still calls esp_ota_begin on the next update partition and   *)
(* esp_ota_write, publishes no FAILED unless one of the two calls fails,   *)
(* and chunk 0 is what the partition then holds.                           *)
(***************************************************************************)
C32_FirstChunkOnMismatch ==
  /\ mqtt_event'.event_id = "MQTT_EVENT_DATA"
  /\ IsFwChunkTopic(mqtt_event'.topic)
  /\ AcceptChunkResponse(mqtt_event'.topic, request_id)
  /\ chunk_current = 0
  /\ boot_partition /= RunningPartition

C32_MismatchIsWarnAndProceed ==
  [][(HandlerStep /\ C32_FirstChunkOnMismatch)
        => /\ effects'[1].op = "esp_ota_begin"
           /\ update_partition' = NextUpdatePartition
           /\ HasOp(effects', "esp_ota_write")
           /\ (HasEff(effects', "esp_ota_begin", "ok")
                 /\ HasEff(effects', "esp_ota_write", "ok"))
                => /\ ota_written' = <<mqtt_event'.data.bytes>>
                   /\ update_handle' \in ota_entries' \/ HasOp(effects', "esp_ota_end")
                   /\ \A i \in 1..Len(effects') :
                         (effects'[i].op = "publish" /\ effects'[i].arg = "FAILED")
                            => \E j \in 1..(i - 1) : effects'[j].op = "esp_ota_end"]_vars

\* chunk 0 of a two-chunk image was written to ota_1 while the boot loader is
\* configured to start ota_1 and the device runs ota_0
C32_Witness ==
  /\ mqtt_pc = "idle"
  /\ boot_partition = "ota_1" /\ RunningPartition = "ota_0"
  /\ mqtt_event.event_id = "MQTT_EVENT_DATA"
  /\ IsFwChunkTopic(mqtt_event.topic)
  /\ sess.begin = "ok" /\ sess.write = "ok"
  /\ update_partition = "ota_1"
  /\ chunk_current = 1 /\ chunk_count > 1
  /\ ota_written = <<"A">>
  /\ HasEff(effects, "esp_ota_begin", "ok")
  /\ HasEff(effects, "publish", "chunk_request")

(***************************************************************************)
(* C33: the firmware-update POST applies the submitted policy: when        *)
(* conf_fw_update_post_handler, given a body with a valid ota_behaviour,   *)
(* calls atl_config_commit_nvs, atl_config.ota.behaviour is the submitted  *)
(* value.                                                                  *)
(***************************************************************************)
C33_ValidFwUpdatePost ==
  /\ http_req.handler = "conf_fw_update_post"
  /\ ApplyFwUpdatePost(ZeroOta, http_req).behaviour = http_req.ota_behaviour

C33_SubmittedPolicyIsCommitted ==
  (http_pc = "commit" /\ C33_ValidFwUpdatePost)
     => atl_config.ota.behaviour = http_req.ota_behaviour

(***************************************************************************)
(* C38: station reconnection is bounded by the retry limit: the handler    *)
(* never makes more than sta_max_conn_retry consecutive reconnect attempts *)
(* without a connection in between.                                        *)
(***************************************************************************)
C38_ReconnectsBounded == sta_attempts <= sta_max_conn_retry

(***************************************************************************)
(* C37: the configuration lock is deadlock-free: a task that took          *)
(* atl_config_mutex gives it before it takes it again or returns, so       *)
(* under fair scheduling the mutex does not stay with a holder and every   *)
(* task waiting in xSemaphoreTake acquires it, as long as the device is    *)
(* not restarted.                                                          *)
(***************************************************************************)
C37_LockIsDeadlockFree ==
  /\ \A c \in {"mqtt", "http", "api"} :
        (atl_config_mutex = c) ~> (atl_config_mutex /= c \/ ~Running)
  /\ (mqtt_pc = "take2") ~> (mqtt_pc = "copy_in" \/ ~Running)
  /\ (http_pc = "take2") ~> (http_pc = "copy_in" \/ ~Running)

\* both writers wait for the mutex while the reader holds it
C37_Witness ==
  /\ Running
  /\ atl_config_mutex = "api"
  /\ mqtt_pc = "take2"
  /\ http_pc = "take2"

====
